---- MODULE Spec2Model ----
(***************************************************************************)
(* A model of asyncwinrm: the remote-shell streaming engine (shell.py) and *)
(* the WS-Enumeration generator (client/wsman.py).                         *)
(*                                                                         *)
(* Spec      : one Shell with one spawned command (stdin=PIPE,             *)
(*             stdout=PIPE, stderr=PIPE): the receive loop task, a caller  *)
(*             of Process.wait(), and the server answering the requests.   *)
(* SpecStdin : the receive loop and the ShellWriter send loop of a command *)
(*             that writes no output.                                      *)
(* SpecShell : SpecStdin with Shell.destroy() and Process.terminate().     *)
(* SpecEnum  : one run of WSManagementClient.enumerate() against a server  *)
(*             and a consumer that may abandon the generator at any yield. *)
(*                                                                         *)
(* SpecSync  : one command read by communicate() and wait(), with the      *)
(*             event loop's queue of ready handles (Process.returncode).   *)
(* SpecLocks : two commands of one Shell with their receive loops and      *)
(*             stdin sources, the send lock and the receive lock.          *)
(* SpecMerged: one command with stdout=PIPE and stderr=PIPE or STDOUT.     *)
(* SpecPipe  : the stdin of one command: a pipe writer with a caller of    *)
(*             drain(), a fed source or DEVNULL.                           *)
(* SpecSpawn : calls of Shell.spawn() with their stdout and stderr         *)
(*             arguments, the command-context map and the server.          *)
(* SpecAuth  : requests through one SPNEGOAuth or SPNEGOEncryptedAuth.     *)
(*                                                                         *)
(* Every task is a process whose steps are the code between two awaits.    *)
(***************************************************************************)
EXTENDS Integers, Sequences, FiniteSets, TLC

(* ----------------------------- bounds ---------------------------------- *)
\* Receive requests one receive loop may post
MaxReceives == 3
\* Receive requests of the receive loop next to a stdin writer
MaxStdinReceives == 2
\* stream payloads the server emits over the life of the command
MaxData == 2
\* elements in one ReceiveResponse
MaxEvents == 2
\* calls of ShellWriter.write()
MaxWrites == 1
\* calls of Process.wait()
MaxWaits == 2
\* bytes passed to one write()
MaxWriteLen == 2
\* the stdin_chunk_size given to spawn
StdinChunkSize == 1
\* calls of Process.terminate()
MaxUserSignals == 1
\* Sends of one stdin source, Receives of one receive loop, next to another command
MaxSends == 1
MaxLockReceives == 2
\* payloads the server sends to a command whose stderr may go to stdout,
\* and the elements of one of its ReceiveResponses
MaxMergeData == 2
MaxMergeEvents == 2
\* calls of write() on the pipe writer (or reads of the stdin source) and
\* calls of close(), next to a caller of drain()
MaxPipeWrites == 2
MaxCloses == 2
\* Pull requests of one enumeration
MaxPulls == 2
\* items in one Items element
MaxItems == 2
\* distinct EnumerationContext values the server hands out
MaxContexts == 2
\* concurrent requests through one auth object
MaxRequests == 2
\* steps a SPNEGO context takes before it must complete
MaxSteps == 2
\* calls of Shell.spawn()
MaxSpawns == 3

(* -------------------------- program constants -------------------------- *)
\* the WSMan fault code of an operation timeout
OperationTimeoutCode == "2150858793"
\* some other WSMan fault code (access denied)
OtherFaultCode == "5"
\* exit_code of a CommandState without ExitCode
NoExitCode == -1

ExitCodes == {NoExitCode, 3}
StreamNames == {"stdout", "stderr"}
\* context: Optional[etree.Element] = None
NoContext == 0
EnumActions == {"Enumerate", "Pull", "Release"}
\* a text or an attribute that is absent (Python None)
None == "None"
\* no flow holds the auth lock
NoRequest == 0
\* the requests sent through one auth object
Requests == 1..MaxRequests
\* the values of protocol that _allowed_schemes tells apart
Protocols == {"negotiate", "kerberos", "ntlm"}
\* a flow that has received no response yet
NoResponse == <<>>
\* no call of spawn() yet
NoArgs == <<>>
\* what spawn() takes for stdout and stderr: the constants of the module,
\* None, or the path of a file
SpawnTargets == {"PIPE", "STDOUT", "DEVNULL", "None", "path"}

VARIABLES
    \* Shell
    destroyed,          \* Shell.destroyed
    send_lock,          \* Shell._send_lock is held
    receive_lock,       \* Shell._receive_lock is held
    command_contexts,   \* keys of Shell._command_contexts
    destroy_pc,         \* the caller of Shell.destroy()
    spawn_pc,           \* the caller of Shell.spawn()
    \* _CommandContext of the command
    done_event, receive_cancel, receive_idle,
    \* the receive loop task and its locals
    rpc,                \* position of Shell._receive_loop
    loc,                \* stdout_finished, stderr_finished, returncode, done_seen
    readers,            \* the two asyncio.StreamReader: data fed, eof fed
    loop_exc,           \* the exception that ended the receive loop
    fut,                \* returncode_future
    fut_sets,           \* how often set_result/set_exception ran on it
    \* ShellWriter
    queue,              \* ShellWriter._queue
    writer_closed,      \* ShellWriter._closed
    wpc,                \* position of ShellWriter._send_loop
    witem,              \* the item the send loop took from the queue
    send_woken,         \* receive_idle.wait() of _send was woken by set()
    n_writes,           \* write() calls made
    \* caller of Process.wait()
    wait_pc, wait_out, n_waits,
    \* requests and the server
    posted,             \* requests posted so far, by action
    orphan_recv,        \* Receive requests left in flight by a cancelled task
    srv_exit,           \* the exit code the command terminates with
    srv,                \* what the server has emitted for the command
    emitted,            \* per stream: payloads in the responses received
    hist,               \* bookkeeping for the properties
    \* WSManagementClient.enumerate, an async generator, and its consumer
    epc,                \* position of the generator
    context,            \* context: the EnumerationContext the next request carries
    next_context,       \* next_context
    finished,           \* finished
    resp,               \* elements of resp.data the for loop has not visited
    items,              \* items of the current Items element not yet yielded
    e_exc,              \* the exception the generator ended with
    e_posted,           \* enumeration requests posted so far, by action
    ehist,              \* bookkeeping for the properties
    \* one SPNEGOAuth or SPNEGOEncryptedAuth object and the requests through it
    auth_encrypted,     \* the object is a SPNEGOEncryptedAuth
    auth_lock,          \* the request whose flow holds _async_lock, or NoRequest
    auth_context,       \* _context: steps made, complete
    apc,                \* per request: position of its async_auth_flow
    asent,              \* per request: the HTTP requests its flow has yielded
    astart,             \* per request: the context was complete when its flow began
    auth_protocol,      \* self.protocol
    awire,              \* per request: the HTTP requests as they were built
    alast,              \* per request: how its flow took the last response
    \* one call of a function of the library
    call_arg,           \* what it is called with
    call_result,        \* what it returned or raised, NoResult before the call
    \* one WSManagementEnvelope
    header,             \* the children of its Header, in document order
    assigned,           \* per typed property: the value last assigned to it
    set_exc,            \* the exception the last assignment raised
    n_assigned,         \* assignments made so far
    \* the MessageIDs of the requests built
    uuid_calls,         \* calls of uuid.uuid4() so far: the n-th returns n
    built,              \* the requests built: builder, explicit id or not, MessageID
    \* one command read by Process.communicate, and the event loop
    ready,              \* the handles the event loop will run, in order
    recv_pc,            \* where the receive task stands
    flags,              \* stdout_finished, stderr_finished, done_seen, returncode
    pipes,              \* per pipe reader: data buffered, EOF fed
    rc_future,          \* returncode_future: done, result, done callbacks
    returncode,         \* Process.returncode
    comm_pc,            \* where the caller of communicate() and wait() stands
    blocked_on,         \* what that caller awaits
    n_responses,        \* ReceiveResponses so far
    seen,               \* what the caller found when wait() returned
    \* one Shell with several commands: the locks and the stdin sources
    stdin_of,           \* per command: the stdin given to spawn, or "unspawned"
    ctx_of,             \* per command: its _CommandContext and whether it is open
    locks,              \* _send_lock, _receive_lock: the holder, then the waiters
    tasks,              \* per command: where its receive and stdin tasks stand
    inflight,           \* the requests in flight: Send, Receive, Receive without a task
    counts,             \* per command: Sends and Receives answered
    send_steps,         \* per command: the steps of its present _send call
    send_posts,         \* the Sends posted: command, source, context open, steps
    \* one command spawned with stdout=PIPE and stderr=PIPE or STDOUT
    spawn_args,         \* the stderr argument, and whether asserts are compiled out
    mloop,              \* the receive loop: where it stands, the streams finished
    mreaders,           \* per StreamReader: what was fed, EOF, a feed_data after EOF
    msrv,               \* the server: payloads sent, streams ended
    \* one command and its stdin source, with a caller of drain()
    p_source,           \* the stdin given to spawn, or "unspawned"
    p_queue,            \* ShellWriter._queue: the items not yet taken
    p_unfinished,       \* the queue's count of items put and not yet task_done
    p_closed,           \* ShellWriter._closed
    p_task,             \* the send loop or stdin task: where it stands, its item
    p_done,             \* done_event is set
    p_written,          \* the bytes passed to write(), or read from the source
    p_sends,            \* the Send requests posted, in order
    p_drain,            \* where the caller of drain() stands
    p_calls,            \* calls of write() and close() so far
    \* one Shell, the callers of spawn() and destroy(), and the server
    sp_destroyed,       \* Shell.destroyed
    sp_destroy_pc,      \* the caller of destroy()
    sp_contexts,        \* the keys of Shell._command_contexts
    sp_pc,              \* the caller of spawn()
    sp_args,            \* the stdout and stderr arguments of the call
    sp_exc,             \* what the call raised
    sp_server,          \* the commands running on the server
    sp_loops,           \* the commands with a receive loop task
    sp_calls            \* calls of spawn() so far

shellVars == <<destroyed, send_lock, receive_lock, command_contexts, destroy_pc, spawn_pc>>
ctxVars == <<done_event, receive_cancel, receive_idle>>
loopVars == <<rpc, loc, readers, loop_exc, fut, fut_sets>>
writerVars == <<queue, writer_closed, wpc, witem, send_woken, n_writes>>
waitVars == <<wait_pc, wait_out, n_waits>>
srvVars == <<posted, orphan_recv, srv_exit, srv, emitted, hist>>

enumVars == <<epc, context, next_context, finished, resp, items, e_exc, e_posted, ehist>>
processVars == <<shellVars, ctxVars, loopVars, writerVars, waitVars, srvVars>>

authVars == <<auth_encrypted, auth_lock, auth_context, apc, asent, astart,
              auth_protocol, awire, alast>>
callVars == <<call_arg, call_result>>
envVars == <<header, assigned, set_exc, n_assigned>>
idVars == <<uuid_calls, built>>
syncVars == <<ready, recv_pc, flags, pipes, rc_future, returncode, comm_pc,
              blocked_on, n_responses, seen>>
lockVars == <<stdin_of, ctx_of, locks, tasks, inflight, counts, send_steps, send_posts>>
mergeVars == <<spawn_args, mloop, mreaders, msrv>>
pipeVars == <<p_source, p_queue, p_unfinished, p_closed, p_task, p_done,
              p_written, p_sends, p_drain, p_calls>>
spawnVars == <<sp_destroyed, sp_destroy_pc, sp_contexts, sp_pc, sp_args, sp_exc,
               sp_server, sp_loops, sp_calls>>
laterVars == <<lockVars, mergeVars, pipeVars, spawnVars>>
moreVars == <<idVars, syncVars, laterVars>>
libVars == <<authVars, callVars, envVars, moreVars>>

vars == <<processVars, enumVars, libVars>>

(* ------------------------------ values --------------------------------- *)
Actions == {"Command", "Receive", "Send", "Signal", "Delete"}

NoExc == [type |-> "none", wsman_code |-> ""]
WSManFaultError(code) == [type |-> "WSManFaultError", wsman_code |-> code]
SOAPFaultError == [type |-> "SOAPFaultError", wsman_code |-> ""]
TransportError == [type |-> "TransportError", wsman_code |-> ""]
ProtocolError == [type |-> "ProtocolError", wsman_code |-> ""]
AssertionError == [type |-> "AssertionError", wsman_code |-> ""]
CancelledError == [type |-> "CancelledError", wsman_code |-> ""]
ShellDestroyedError == [type |-> "RuntimeError", wsman_code |-> ""]

\* what client.request() can raise for a request the server answered or dropped
RequestErrors ==
    {WSManFaultError(OperationTimeoutCode), WSManFaultError(OtherFaultCode),
     SOAPFaultError, TransportError}

\* exceptions.py: WSManFaultError is a subclass of SOAPFaultError
IsSOAPFaultError(exc) == exc.type \in {"SOAPFaultError", "WSManFaultError"}

\* a mutant: the fault code is never recognised
IsOperationTimeoutFault_never(exc) == FALSE

IsOperationTimeoutFault(exc) ==
    exc.type = "WSManFaultError" /\ exc.wsman_code = OperationTimeoutCode

\* the elements of a ReceiveResponse (protocol/shell.py)
StreamEvent(name, content, end) ==
    [type |-> "stream", stream |-> name, content |-> content, finished |-> end,
     state |-> "", exit_code |-> NoExitCode]
CommandStateEvent(state, exit_code) ==
    [type |-> "state", stream |-> "", content |-> 0, finished |-> FALSE,
     state |-> state, exit_code |-> exit_code]
UnknownElement ==
    [type |-> "unknown", stream |-> "", content |-> 0, finished |-> FALSE,
     state |-> "", exit_code |-> NoExitCode]

PendingFuture == [state |-> "pending", value |-> 0, exc |-> NoExc]

\* asyncio.StreamReader: the data fed and whether feed_eof() ran
EmptyReader == [data |-> <<>>, eof |-> FALSE]

(* ------------------------- the receive loop ---------------------------- *)
\* StreamReader.feed_data: asserts that no EOF was fed, ignores empty data
FeedData(st, name, content) ==
    IF st.rd[name].eof
    THEN [st EXCEPT !.exc = AssertionError, !.stop = TRUE]
    ELSE IF content = 0 THEN st
         ELSE [st EXCEPT !.rd[name].data = Append(@, content)]

\* a mutant: the data is put in front of what the reader holds
FeedFinished_lifo(st, ev) ==
    LET fed == IF ev.content = 0 \/ st.rd[ev.stream].eof THEN st
               ELSE [st EXCEPT !.rd[ev.stream].data = <<ev.content>> \o @]
    IN IF ev.finished
       THEN [fed EXCEPT !.finished = @ \cup {ev.stream}, !.rd[ev.stream].eof = TRUE]
       ELSE fed

\* lines 519-536: one StreamEvent of stdout or stderr
FeedFinished(st, ev) ==
    LET fed == FeedData(st, ev.stream, ev.content)
    IN IF fed.stop THEN fed
       ELSE IF ev.finished
            THEN [fed EXCEPT !.finished = @ \cup {ev.stream}, !.rd[ev.stream].eof = TRUE]
            ELSE fed

\* event.exit_code or 0
ExitCodeOrZero(exit_code) == IF exit_code = NoExitCode THEN 0 ELSE exit_code

\* lines 518-545, and the raise of _get_events for an unknown element
HandleEvent(st, ev) ==
    CASE ev.type = "unknown" -> [st EXCEPT !.exc = ProtocolError, !.stop = TRUE]
      [] ev.type = "stream" ->
            IF ev.stream \in StreamNames THEN FeedFinished(st, ev) ELSE st
      [] ev.type = "state" ->
            IF ev.state = "Done"
            THEN [st EXCEPT !.done_seen = TRUE,
                            !.returncode = ExitCodeOrZero(ev.exit_code),
                            !.stop = TRUE]
            ELSE st

\* the async for over the events of one response
RECURSIVE ProcessEvents(_, _)
ProcessEvents(st, events) ==
    IF events = <<>> \/ st.stop THEN st
    ELSE ProcessEvents(HandleEvent(st, Head(events)), Tail(events))

\* the loop's locals and the readers before a response is handled
LoopState ==
    [finished |-> loc.finished, returncode |-> loc.returncode,
     done_seen |-> loc.done_seen, rd |-> readers, exc |-> NoExc, stop |-> FALSE]

\* a mutant: the loop ends with the End of either stream
LoopDone_either(st) == st.done_seen \/ st.finished # {}

\* line 552, and the done flag set by the break
LoopDone(st) == st.done_seen \/ st.finished = StreamNames

\* lines 565-568: feed_eof() on both readers
FeedEofAll(rd) == [n \in StreamNames |-> [rd[n] EXCEPT !.eof = TRUE]]

\* lines 559-560
SetResult(f, value) ==
    IF f.state = "pending" THEN [state |-> "result", value |-> value, exc |-> NoExc] ELSE f

\* lines 555-556
SetException(f, exc) ==
    IF f.state = "pending" THEN [state |-> "exception", value |-> 0, exc |-> exc] ELSE f

(* ------------------------------ server --------------------------------- *)
\* one more element of a ReceiveResponse, and the server's state after it: a
\* stream carries no data after its End marker, Done is reported once
ServerNext(s) ==
    UNION {
        {<<StreamEvent(n, s.seq + 1, f), [s EXCEPT !.seq = @ + 1,
                !.ended = IF f THEN @ \cup {n} ELSE @]>>
            : f \in IF s.seq < s.data THEN BOOLEAN ELSE {}}
        \cup {<<StreamEvent(n, 0, TRUE), [s EXCEPT !.ended = @ \cup {n}]>>}
        : n \in StreamNames \ s.ended }
    \cup {<<CommandStateEvent("Running", NoExitCode), s>>}
    \cup (IF s.done THEN {}
          ELSE {<<CommandStateEvent("Done", srv_exit), [s EXCEPT !.done = TRUE]>>})
    \cup {<<UnknownElement, s>>}

\* the responses of at most n elements the server can give in state s
RECURSIVE ServerResponses(_, _)
ServerResponses(s, n) ==
    {<<<<>>, s>>} \cup
    IF n = 0 THEN {}
    ELSE UNION { { <<(<<p[1]>> \o r[1]), r[2]>> : r \in ServerResponses(p[2], n - 1) }
                 : p \in ServerNext(s) }

\* the payloads of stream name in a response, in document order
RECURSIVE Payloads(_, _)
Payloads(events, name) ==
    IF events = <<>> THEN <<>>
    ELSE (IF Head(events).type = "stream" /\ Head(events).stream = name
             /\ Head(events).content # 0
          THEN <<Head(events).content>> ELSE <<>>) \o Payloads(Tail(events), name)

\* the items of ShellWriter._queue: a chunk of bytes, or None for close()
DataItem(bytes) == [end |-> FALSE, data |-> bytes]
EndItem == [end |-> TRUE, data |-> <<>>]

(* ------------------------------- Init ---------------------------------- *)
\* before a call of a library function
NoResult == [type |-> "none"]

\* the commands of the shell with several commands
Commands == {"cmd1", "cmd2"}
\* a _CommandContext that is not in _command_contexts
ClosedContext ==
    [open |-> FALSE, done_event |-> FALSE, receive_cancel |-> FALSE,
     receive_idle |-> FALSE]

\* absent (Python None) and present values of an Optional
Nothing == <<>>
Some(x) == <<x>>

\* the typed header properties of WSManagementEnvelope
Properties ==
    {"to", "reply_to", "action", "message_id", "resource_uri", "selectors",
     "options", "locale", "data_locale", "timeout", "max_size"}

\* the default of the message_id parameter of BaseConnection._build_request,
\* f"urn:uuid:{uuid.uuid4()}": the first call of uuid4, made when the def
\* statement is executed
DefaultMessageId == 1

\* no library function is called
NoCall == call_arg = <<>> /\ call_result = NoResult

\* negotiate(username, password): an encrypted auth object of protocol
\* "negotiate"
DefaultAuth == auth_encrypted = TRUE /\ auth_protocol = "negotiate"

\* the state after Shell.__init__; the command will write at most data payloads
\* and the receive loop is followed for at most receives Receive requests
InitWith(data, receives) ==
    /\ destroyed = FALSE /\ send_lock = FALSE /\ receive_lock = FALSE
    /\ command_contexts = {} /\ destroy_pc = "idle" /\ spawn_pc = "idle"
    /\ done_event = FALSE /\ receive_cancel = FALSE /\ receive_idle = FALSE
    /\ rpc = "none"
    /\ loc = [finished |-> {}, returncode |-> 0, done_seen |-> FALSE]
    /\ readers = [n \in StreamNames |-> EmptyReader]
    /\ loop_exc = NoExc
    /\ fut = PendingFuture /\ fut_sets = 0
    /\ queue = <<>> /\ writer_closed = FALSE /\ wpc = "none" /\ witem = EndItem
    /\ send_woken = FALSE /\ n_writes = 0
    /\ wait_pc = "idle" /\ wait_out = [value |-> 0, exc |-> NoExc] /\ n_waits = 0
    /\ posted = [a \in Actions |-> 0]
    /\ orphan_recv = 0
    /\ srv_exit = NoExitCode
    /\ srv = [seq |-> 0, ended |-> {}, done |-> FALSE, data |-> data,
              receives |-> receives]
    /\ emitted = [n \in StreamNames |-> <<>>]
    /\ hist = [timeouts |-> 0, cancel_target |-> 0, recv_ended |-> 0,
               recv_cancelled |-> 0, user_signals |-> 0, written |-> 0,
               write_raised |-> FALSE, send_transport_error |-> FALSE,
               signal_exc |-> NoExc]
    /\ epc = "idle" /\ context = NoContext /\ next_context = NoContext
    /\ finished = FALSE /\ resp = <<>> /\ items = 0 /\ e_exc = NoExc
    /\ e_posted = [a \in EnumActions |-> 0]
    /\ ehist = [yielded |-> 0, abandoned |-> FALSE, eos_received |-> FALSE,
                fresh |-> FALSE,
                observed |-> NoContext, released |-> <<>>, pulled |-> <<>>]
    /\ auth_lock = NoRequest
    /\ auth_context = [steps |-> 0, complete |-> FALSE]
    /\ apc = [r \in Requests |-> "idle"]
    /\ asent = [r \in Requests |-> <<>>]
    /\ astart = [r \in Requests |-> FALSE]
    /\ awire = [r \in Requests |-> <<>>]
    /\ alast = [r \in Requests |-> NoResponse]
    /\ header = <<>> /\ assigned = [p \in Properties |-> Nothing]
    /\ set_exc = "none" /\ n_assigned = 0
    /\ uuid_calls = DefaultMessageId /\ built = <<>>
    /\ ready = <<>> /\ recv_pc = "receiving"
    /\ flags = [stdout_finished |-> FALSE, stderr_finished |-> FALSE,
                done_seen |-> FALSE, both_eof_at_done |-> FALSE,
                reading_at_done |-> FALSE]
    /\ pipes = [n \in StreamNames |-> [data |-> FALSE, eof |-> FALSE]]
    /\ rc_future = [done |-> FALSE, result |-> 0, callbacks |-> <<"_sync_returncode">>]
    /\ returncode = Nothing
    /\ comm_pc = "not_called" /\ blocked_on = "nothing" /\ n_responses = 0
    /\ seen = [returned |-> FALSE, returncode |-> Nothing, awaited |-> FALSE]
    /\ stdin_of = [c \in Commands |-> "unspawned"]
    /\ ctx_of = [c \in Commands |-> ClosedContext]
    /\ locks = [send |-> <<>>, receive |-> <<>>]
    /\ tasks = [c \in Commands |-> [receive |-> "none", stdin |-> "none", woken |-> FALSE]]
    /\ inflight = [send |-> {}, receive |-> {}, orphaned |-> 0]
    /\ counts = [c \in Commands |-> [sends |-> 0, receives |-> 0]]
    /\ send_steps = [c \in Commands |-> <<>>]
    /\ send_posts = {}
    /\ spawn_args = [stderr |-> "unspawned", optimized |-> FALSE]
    /\ mloop = [pc |-> "none", finished |-> {}]
    /\ mreaders = [r \in {"stdout_reader", "stderr_reader"} |->
                      [fed |-> <<>>, eof |-> FALSE, after_eof |-> FALSE]]
    /\ msrv = [sent |-> 0, ended |-> {}]
    /\ p_source = "unspawned" /\ p_queue = <<>> /\ p_unfinished = 0
    /\ p_closed = FALSE /\ p_task = [pc |-> "none", item |-> EndItem]
    /\ p_done = FALSE /\ p_written = <<>> /\ p_sends = <<>>
    /\ p_drain = "idle" /\ p_calls = [write |-> 0, close |-> 0]
    /\ sp_destroyed = FALSE /\ sp_destroy_pc = "idle" /\ sp_contexts = {}
    /\ sp_pc = "idle" /\ sp_args = NoArgs /\ sp_exc = "none"
    /\ sp_server = {} /\ sp_loops = {} /\ sp_calls = 0

Init == InitWith(MaxData, MaxReceives) /\ DefaultAuth /\ NoCall

(* ------------------------------ spawn ---------------------------------- *)
\* Shell.spawn up to the Command request (lines 326-334)
SpawnCall ==
    /\ spawn_pc = "idle"
    /\ IF destroyed
       THEN spawn_pc' = "raised" /\ posted' = posted
       ELSE spawn_pc' = "command" /\ posted' = [posted EXCEPT !["Command"] = @ + 1]
    /\ UNCHANGED <<destroyed, send_lock, receive_lock, command_contexts, destroy_pc>>
    /\ UNCHANGED <<ctxVars, loopVars, writerVars, waitVars>>
    /\ UNCHANGED <<orphan_recv, srv_exit, srv, emitted, hist>>
    /\ UNCHANGED <<enumVars, libVars>>

\* the CommandResponse arrives: lines 335-396 with stdin, stdout, stderr = PIPE
SpawnReturn ==
    /\ spawn_pc = "command"
    /\ spawn_pc' = "done"
    /\ command_contexts' = command_contexts \cup {"cmd"}
    /\ receive_idle' = TRUE
    /\ rpc' = "start"
    /\ wpc' = "get"
    /\ srv_exit' \in ExitCodes
    /\ UNCHANGED <<destroyed, send_lock, receive_lock, destroy_pc>>
    /\ UNCHANGED <<done_event, receive_cancel>>
    /\ UNCHANGED <<loc, readers, loop_exc, fut, fut_sets>>
    /\ UNCHANGED <<queue, writer_closed, witem, send_woken, n_writes>>
    /\ UNCHANGED waitVars
    /\ UNCHANGED <<posted, orphan_recv, srv, emitted, hist>>
    /\ UNCHANGED <<enumVars, libVars>>

\* the Command request fails: spawn raises before a context is opened
SpawnFail ==
    /\ spawn_pc = "command"
    /\ spawn_pc' = "raised"
    /\ UNCHANGED <<destroyed, send_lock, receive_lock, command_contexts, destroy_pc>>
    /\ UNCHANGED <<ctxVars, loopVars, writerVars, waitVars, srvVars>>
    /\ UNCHANGED <<enumVars, libVars>>

(* --------------------- the receive loop task --------------------------- *)
\* receive_idle.set() wakes a _send that awaits receive_idle.wait()
WokenBySet == send_woken \/ wpc = "await_idle"

Locals(st) == [finished |-> st.finished, returncode |-> st.returncode,
               done_seen |-> st.done_seen]

\* the next iteration of the while loop up to the await of _get_events
\* (lines 510-517, 440-457): the lock is free, so nothing suspends before
Iterate ==
    IF posted["Receive"] < srv.receives
    THEN /\ rpc' = "inflight" /\ receive_lock' = TRUE /\ receive_idle' = FALSE
         /\ posted' = [posted EXCEPT !["Receive"] = @ + 1]
    ELSE /\ rpc' = "loop" /\ receive_lock' = FALSE /\ receive_idle' = TRUE
         /\ posted' = posted

\* the loop goes on with the locals st
Continue(st) ==
    /\ Iterate
    /\ readers' = st.rd
    /\ UNCHANGED <<fut, fut_sets, loop_exc, command_contexts, done_event>>

\* lines 558-574: the loop ended without an exception
Finish(st) ==
    /\ receive_lock' = FALSE /\ receive_idle' = TRUE
    /\ fut' = SetResult(fut, st.returncode)
    /\ fut_sets' = IF fut.state = "pending" THEN fut_sets + 1 ELSE fut_sets
    /\ loop_exc' = loop_exc
    /\ done_event' = (done_event \/ st.done_seen)
    /\ IF st.done_seen
       THEN /\ rpc' = "signalling"
            /\ posted' = [posted EXCEPT !["Signal"] = @ + 1]
            /\ readers' = st.rd
            /\ UNCHANGED command_contexts
       ELSE /\ rpc' = "ended"
            /\ posted' = posted
            /\ readers' = FeedEofAll(st.rd)
            /\ command_contexts' = command_contexts \ {"cmd"}

\* lines 554-557 and 561-574: the loop ended with the exception exc
Fail(st, exc) ==
    /\ receive_lock' = FALSE /\ receive_idle' = TRUE
    /\ fut' = SetException(fut, exc)
    /\ fut_sets' = IF fut.state = "pending" THEN fut_sets + 1 ELSE fut_sets
    /\ loop_exc' = exc
    /\ rpc' = "failed"
    /\ posted' = posted
    /\ readers' = FeedEofAll(st.rd)
    /\ command_contexts' = command_contexts \ {"cmd"}
    /\ UNCHANGED done_event

\* the first step of the task created by spawn (line 372)
RecvStart ==
    /\ rpc = "start"
    /\ Continue(LoopState)
    /\ UNCHANGED <<destroyed, send_lock, destroy_pc, spawn_pc, receive_cancel, loc>>
    /\ UNCHANGED <<writerVars, waitVars>>
    /\ UNCHANGED <<orphan_recv, srv_exit, srv, emitted, hist>>
    /\ UNCHANGED <<enumVars, libVars>>

\* the Receive request returns a ReceiveResponse: lines 463-491 and 518-553
RecvResponse ==
    /\ rpc = "inflight" /\ ~send_woken
    /\ \E r \in ServerResponses(srv, MaxEvents) :
         LET st == ProcessEvents(LoopState, r[1]) IN
         /\ srv' = r[2]
         /\ emitted' = [n \in StreamNames |-> emitted[n] \o Payloads(r[1], n)]
         /\ loc' = Locals(st)
         /\ IF st.exc # NoExc THEN Fail(st, st.exc)
            ELSE IF LoopDone(st) THEN Finish(st)
            ELSE Continue(st)
    /\ send_woken' = WokenBySet
    /\ hist' = [hist EXCEPT !.timeouts = 0, !.recv_ended = posted["Receive"]]
    /\ UNCHANGED <<destroyed, send_lock, destroy_pc, spawn_pc, receive_cancel>>
    /\ UNCHANGED <<queue, writer_closed, wpc, witem, n_writes>>
    /\ UNCHANGED <<waitVars, orphan_recv, srv_exit>>
    /\ UNCHANGED <<enumVars, libVars>>

\* the Receive request raises: lines 548-551
RecvFault ==
    /\ rpc = "inflight" /\ ~send_woken
    /\ \E exc \in RequestErrors :
         /\ IF IsSOAPFaultError(exc) /\ IsOperationTimeoutFault(exc)
            THEN Continue(LoopState) ELSE Fail(LoopState, exc)
         /\ hist' = [hist EXCEPT
                !.timeouts = IF exc = WSManFaultError(OperationTimeoutCode)
                             THEN @ + 1 ELSE 0,
                !.recv_ended = posted["Receive"]]
    /\ send_woken' = WokenBySet
    /\ UNCHANGED <<destroyed, send_lock, destroy_pc, spawn_pc, receive_cancel, loc>>
    /\ UNCHANGED <<queue, writer_closed, wpc, witem, n_writes>>
    /\ UNCHANGED <<waitVars, orphan_recv, srv_exit, srv, emitted>>
    /\ UNCHANGED <<enumVars, libVars>>

\* receive_cancel fires before the response: lines 458-462 and 546-547
RecvCancelled ==
    /\ rpc = "inflight" /\ ~send_woken
    /\ receive_cancel
    /\ Continue(LoopState)
    /\ send_woken' = WokenBySet
    /\ hist' = [hist EXCEPT !.timeouts = 0, !.recv_ended = posted["Receive"],
                            !.recv_cancelled = posted["Receive"]]
    /\ UNCHANGED <<destroyed, send_lock, destroy_pc, spawn_pc, receive_cancel, loc>>
    /\ UNCHANGED <<queue, writer_closed, wpc, witem, n_writes>>
    /\ UNCHANGED <<waitVars, orphan_recv, srv_exit, srv, emitted>>
    /\ UNCHANGED <<enumVars, libVars>>

\* a mutant: no error of the Signal is suppressed
SignalSuppressed_none(exc) == FALSE

\* line 562: with suppress(Exception); CancelledError is a BaseException
SignalSuppressed(exc) == exc.type # "CancelledError"

\* the answer to the Signal Terminate of lines 562-564, or its failure, and
\* the rest of the finally block (lines 565-574)
SignalReply ==
    /\ rpc = "signalling"
    /\ \E exc \in {NoExc} \cup RequestErrors :
         /\ hist' = [hist EXCEPT !.signal_exc = exc]
         /\ IF exc = NoExc \/ SignalSuppressed(exc)
            THEN /\ rpc' = "ended"
                 /\ readers' = FeedEofAll(readers)
                 /\ command_contexts' = command_contexts \ {"cmd"}
            ELSE /\ rpc' = "failed"
                 /\ UNCHANGED <<readers, command_contexts>>
    /\ UNCHANGED <<destroyed, send_lock, receive_lock, destroy_pc, spawn_pc>>
    /\ UNCHANGED <<ctxVars, loc, loop_exc, fut, fut_sets>>
    /\ UNCHANGED <<writerVars, waitVars>>
    /\ UNCHANGED <<posted, orphan_recv, srv_exit, srv, emitted>>
    /\ UNCHANGED <<enumVars, libVars>>

\* the receive task is cancelled from outside (Task.cancel, loop shutdown):
\* CancelledError is no Exception, so only the finally blocks run
CancelReceiveTask ==
    /\ rpc \in {"start", "inflight", "signalling"}
    /\ rpc' = "cancelled"
    /\ IF rpc = "inflight"
       THEN /\ receive_lock' = FALSE /\ receive_idle' = TRUE
            /\ send_woken' = WokenBySet
            /\ orphan_recv' = orphan_recv + 1
            /\ readers' = FeedEofAll(readers)
            /\ command_contexts' = command_contexts \ {"cmd"}
       ELSE UNCHANGED <<receive_lock, receive_idle, send_woken, orphan_recv,
                        readers, command_contexts>>
    /\ UNCHANGED <<destroyed, send_lock, destroy_pc, spawn_pc>>
    /\ UNCHANGED <<done_event, receive_cancel, loc, loop_exc, fut, fut_sets>>
    /\ UNCHANGED <<queue, writer_closed, wpc, witem, n_writes>>
    /\ UNCHANGED <<waitVars, posted, srv_exit, srv, emitted, hist>>
    /\ UNCHANGED <<enumVars, libVars>>

(* --------------------------- ShellWriter ------------------------------- *)
\* lines 114-115: the payload cut into chunks of at most c bytes
RECURSIVE Chunks(_, _)
Chunks(payload, c) ==
    IF payload = <<>> THEN <<>>
    ELSE IF Len(payload) <= c THEN <<DataItem(payload)>>
    ELSE <<DataItem(SubSeq(payload, 1, c))>> \o Chunks(SubSeq(payload, c + 1, Len(payload)), c)

\* the bytes of the next write(): numbered on from those already written
NextBytes(n) == [i \in 1..n |-> hist.written + i]

\* lines 104-105: write() on a closed writer raises RuntimeError
WriteRaises == writer_closed

\* ShellWriter.write (lines 103-115)
Write ==
    /\ spawn_pc = "done" /\ n_writes < MaxWrites
    /\ n_writes' = n_writes + 1
    /\ \E n \in 1..MaxWriteLen :
         IF WriteRaises
         THEN /\ queue' = queue
              /\ hist' = [hist EXCEPT !.write_raised = TRUE]
         ELSE IF done_event
         THEN /\ queue' = queue
              /\ hist' = [hist EXCEPT !.write_raised = FALSE]
         ELSE /\ queue' = queue \o Chunks(NextBytes(n), StdinChunkSize)
              /\ hist' = [hist EXCEPT !.written = @ + n, !.write_raised = FALSE]
    /\ UNCHANGED <<shellVars, ctxVars, loopVars, waitVars>>
    /\ UNCHANGED <<writer_closed, wpc, witem, send_woken>>
    /\ UNCHANGED <<posted, orphan_recv, srv_exit, srv, emitted>>
    /\ UNCHANGED <<enumVars, libVars>>

\* ShellWriter.close (lines 124-127)
Close ==
    /\ spawn_pc = "done" /\ ~writer_closed
    /\ writer_closed' = TRUE
    /\ queue' = Append(queue, EndItem)
    /\ UNCHANGED <<shellVars, ctxVars, loopVars, waitVars, srvVars>>
    /\ UNCHANGED <<wpc, witem, send_woken, n_writes>>
    /\ UNCHANGED <<enumVars, libVars>>

\* a mutant: _send does not wait for receive_idle
ReceiveIdleWaited_skip == TRUE

\* line 597: receive_idle.wait() has returned
ReceiveIdleWaited == send_woken

\* _send_loop takes an item (lines 137-149) and runs _send up to its first
\* await (lines 594-601)
WriterGet ==
    /\ wpc = "get" /\ queue # <<>>
    /\ witem' = Head(queue)
    /\ queue' = Tail(queue)
    /\ IF done_event
       THEN /\ wpc' = IF Head(queue).end THEN "ended" ELSE "get"
            /\ UNCHANGED <<send_lock, receive_cancel, posted, hist>>
       ELSE IF "cmd" \in command_contexts /\ ~receive_idle
            THEN /\ receive_cancel' = TRUE
                 /\ wpc' = "await_idle"
                 /\ hist' = [hist EXCEPT !.cancel_target = posted["Receive"]]
                 /\ UNCHANGED <<send_lock, posted>>
            ELSE /\ receive_cancel' = IF "cmd" \in command_contexts THEN FALSE
                                      ELSE receive_cancel
                 /\ send_lock' = TRUE
                 /\ posted' = [posted EXCEPT !["Send"] = @ + 1]
                 /\ wpc' = "sending"
                 /\ hist' = [hist EXCEPT !.cancel_target = 0]
    /\ send_woken' = FALSE
    /\ UNCHANGED <<destroyed, receive_lock, command_contexts, destroy_pc, spawn_pc>>
    /\ UNCHANGED <<done_event, receive_idle, loopVars, waitVars>>
    /\ UNCHANGED <<writer_closed, n_writes>>
    /\ UNCHANGED <<orphan_recv, srv_exit, srv, emitted>>
    /\ UNCHANGED <<enumVars, libVars>>

\* _send after receive_idle.wait(): lines 598-601
WriterResume ==
    /\ wpc = "await_idle" /\ ReceiveIdleWaited
    /\ receive_cancel' = FALSE
    /\ send_lock' = TRUE
    /\ posted' = [posted EXCEPT !["Send"] = @ + 1]
    /\ wpc' = "sending"
    /\ send_woken' = FALSE
    /\ UNCHANGED <<destroyed, receive_lock, command_contexts, destroy_pc, spawn_pc>>
    /\ UNCHANGED <<done_event, receive_idle, loopVars, waitVars>>
    /\ UNCHANGED <<queue, writer_closed, witem, n_writes>>
    /\ UNCHANGED <<orphan_recv, srv_exit, srv, emitted, hist>>
    /\ UNCHANGED <<enumVars, libVars>>

\* the Send request returns (lines 600-606, 148-151)
SendReturn ==
    /\ wpc = "sending"
    /\ send_lock' = FALSE
    /\ wpc' = IF witem.end THEN "ended" ELSE "get"
    /\ UNCHANGED <<destroyed, receive_lock, command_contexts, destroy_pc, spawn_pc>>
    /\ UNCHANGED <<ctxVars, loopVars, waitVars, srvVars>>
    /\ UNCHANGED <<queue, writer_closed, witem, send_woken, n_writes>>
    /\ UNCHANGED <<enumVars, libVars>>

\* a mutant: no error of a Send is caught
Suppressed_none(item, exc) == FALSE

\* lines 144-148: except TransportError around the Send of End=true
Suppressed(item, exc) == item.end /\ exc = TransportError

\* the Send request raises: only a TransportError of the closing Send is caught
SendFail ==
    /\ wpc = "sending"
    /\ send_lock' = FALSE
    /\ \E exc \in RequestErrors :
         /\ wpc' = IF Suppressed(witem, exc) THEN "ended" ELSE "failed"
         /\ hist' = [hist EXCEPT !.send_transport_error = (exc = TransportError)]
    /\ UNCHANGED <<destroyed, receive_lock, command_contexts, destroy_pc, spawn_pc>>
    /\ UNCHANGED <<ctxVars, loopVars, waitVars>>
    /\ UNCHANGED <<posted, orphan_recv, srv_exit, srv, emitted>>
    /\ UNCHANGED <<queue, writer_closed, witem, send_woken, n_writes>>
    /\ UNCHANGED <<enumVars, libVars>>

(* --------------------------- Process.wait ------------------------------ *)
\* what a caller gets from a done future
Outcome(f) ==
    CASE f.state = "result" -> [value |-> f.value, exc |-> NoExc]
      [] f.state = "exception" -> [value |-> 0, exc |-> f.exc]
      [] OTHER -> [value |-> 0, exc |-> CancelledError]

\* Process.wait (lines 183-186)
WaitCall ==
    /\ spawn_pc = "done" /\ wait_pc # "blocked" /\ n_waits < MaxWaits
    /\ n_waits' = n_waits + 1
    /\ IF fut.state # "pending"
       THEN /\ wait_out' = Outcome(fut)
            /\ wait_pc' = IF fut.state = "result" THEN "returned" ELSE "raised"
       ELSE /\ wait_pc' = "blocked"
            /\ wait_out' = [value |-> 0, exc |-> NoExc]
    /\ UNCHANGED <<shellVars, ctxVars, loopVars, writerVars, srvVars>>
    /\ UNCHANGED <<enumVars, libVars>>

\* the awaited future is done: line 186 returns or raises
WaitWake ==
    /\ wait_pc = "blocked" /\ fut.state # "pending"
    /\ wait_out' = Outcome(fut)
    /\ wait_pc' = IF fut.state = "result" THEN "returned" ELSE "raised"
    /\ UNCHANGED <<shellVars, ctxVars, loopVars, writerVars, srvVars, n_waits>>
    /\ UNCHANGED <<enumVars, libVars>>

\* the caller blocked in line 186 is cancelled: Task.cancel() cancels the
\* future the task awaits, which is returncode_future itself
WaitCancel ==
    /\ wait_pc = "blocked"
    /\ wait_pc' = "cancelled"
    /\ wait_out' = [value |-> 0, exc |-> CancelledError]
    /\ fut' = IF fut.state = "pending"
              THEN [state |-> "cancelled", value |-> 0, exc |-> NoExc] ELSE fut
    /\ UNCHANGED <<shellVars, ctxVars, writerVars, srvVars, n_waits>>
    /\ UNCHANGED <<rpc, loc, readers, loop_exc, fut_sets>>
    /\ UNCHANGED <<enumVars, libVars>>

(* ----------------------- destroy and terminate ------------------------- *)
\* Shell.destroy up to the Delete request (lines 271-277)
DestroyCall ==
    /\ destroy_pc = "idle"
    /\ IF destroyed
       THEN destroy_pc' = "raised" /\ posted' = posted
       ELSE /\ posted["Delete"] < 1
            /\ destroy_pc' = "delete"
            /\ posted' = [posted EXCEPT !["Delete"] = @ + 1]
    /\ UNCHANGED <<destroyed, send_lock, receive_lock, command_contexts, spawn_pc>>
    /\ UNCHANGED <<ctxVars, loopVars, writerVars, waitVars>>
    /\ UNCHANGED <<orphan_recv, srv_exit, srv, emitted, hist>>
    /\ UNCHANGED <<enumVars, libVars>>

\* the Delete request returns (line 278)
DestroyReturn ==
    /\ destroy_pc = "delete"
    /\ destroy_pc' = "idle"
    /\ destroyed' = TRUE
    /\ UNCHANGED <<send_lock, receive_lock, command_contexts, spawn_pc>>
    /\ UNCHANGED <<ctxVars, loopVars, writerVars, waitVars, srvVars>>
    /\ UNCHANGED <<enumVars, libVars>>

\* the Delete request raises: destroyed stays False
DestroyFail ==
    /\ destroy_pc = "delete"
    /\ destroy_pc' = "failed"
    /\ UNCHANGED <<destroyed, send_lock, receive_lock, command_contexts, spawn_pc>>
    /\ UNCHANGED <<ctxVars, loopVars, writerVars, waitVars, srvVars>>
    /\ UNCHANGED <<enumVars, libVars>>

\* Process.terminate / send_signal -> Shell._signal (lines 207-211, 608-621)
UserSignal ==
    /\ spawn_pc = "done" /\ hist.user_signals < MaxUserSignals
    /\ posted' = [posted EXCEPT !["Signal"] = @ + 1]
    /\ hist' = [hist EXCEPT !.user_signals = @ + 1]
    /\ UNCHANGED <<shellVars, ctxVars, loopVars, writerVars, waitVars>>
    /\ UNCHANGED <<orphan_recv, srv_exit, srv, emitted>>
    /\ UNCHANGED <<enumVars, libVars>>

(* ------------------------------- Spec ---------------------------------- *)
\* a command and the caller of wait()
Next ==
    \/ SpawnCall \/ SpawnReturn \/ SpawnFail
    \/ RecvStart \/ RecvResponse \/ RecvFault
    \/ SignalReply \/ CancelReceiveTask
    \/ WaitCall \/ WaitWake \/ WaitCancel

Spec == Init /\ [][Next]_vars

\* the event loop runs every task that is ready and every request is answered
FairSpec == Init /\ [][Next]_vars /\ WF_vars(Next)

\* a command that writes no output and its stdin writer
InitStdin == InitWith(0, MaxStdinReceives) /\ DefaultAuth /\ NoCall

NextStdin ==
    \/ SpawnCall \/ SpawnReturn \/ SpawnFail
    \/ RecvStart \/ RecvResponse \/ RecvFault \/ RecvCancelled
    \/ SignalReply
    \/ Write \/ Close \/ WriterGet \/ WriterResume \/ SendReturn \/ SendFail

SpecStdin == InitStdin /\ [][NextStdin]_vars

\* the same with destroy() and terminate() called on the shell and the process
InitShell == InitWith(0, MaxStdinReceives) /\ DefaultAuth /\ NoCall

NextShell ==
    \/ SpawnCall \/ SpawnReturn \/ SpawnFail
    \/ RecvStart \/ RecvResponse \/ RecvFault \/ RecvCancelled
    \/ SignalReply
    \/ Write \/ Close \/ WriterGet \/ WriterResume \/ SendReturn \/ SendFail
    \/ DestroyCall \/ DestroyReturn \/ DestroyFail \/ UserSignal

SpecShell == InitShell /\ [][NextShell]_vars

(* ===================== WSManagementClient.enumerate ==================== *)
\* the children of resp.data the for loop distinguishes (lines 556-562)
EnumerationContextElement(c) == [tag |-> "EnumerationContext", val |-> c]
ItemsElement(n) == [tag |-> "Items", val |-> n]
EndOfSequenceElement == [tag |-> "EndOfSequence", val |-> 0]

ResponseElements ==
    {EnumerationContextElement(c) : c \in 1..MaxContexts}
        \cup {ItemsElement(n) : n \in 0..MaxItems}
        \cup {EndOfSequenceElement}

\* the bodies a server can answer with: each element at most once, any order
EnumResponses ==
    {r \in UNION {[1..n -> ResponseElements] : n \in 0..Cardinality(EnumActions)} :
        \A i, j \in DOMAIN r : i # j => r[i].tag # r[j].tag}

HasEndOfSequence(r) == \E i \in DOMAIN r : r[i] = EndOfSequenceElement

HasEnumerationContext(r) == \E i \in DOMAIN r : r[i].tag = "EnumerationContext"

GeneratorExit == [type |-> "GeneratorExit", wsman_code |-> ""]

\* the for loop of lines 555-562 from where it stands to its next yield, or
\* to the end of resp.data
RECURSIVE WalkResponse(_)
WalkResponse(w) ==
    IF w.items > 0
    THEN [w EXCEPT !.items = @ - 1, !.yielding = TRUE]
    ELSE IF w.resp = <<>>
    THEN [w EXCEPT !.yielding = FALSE]
    ELSE LET el == Head(w.resp)
             rest == [w EXCEPT !.resp = Tail(@)]
         IN  CASE el.tag = "EnumerationContext" ->
                    WalkResponse([rest EXCEPT !.next_context = el.val,
                                              !.observed = el.val])
               [] el.tag = "Items" ->
                    WalkResponse([rest EXCEPT !.items = el.val])
               [] el.tag = "EndOfSequence" ->
                    WalkResponse([rest EXCEPT !.finished = TRUE])

\* a mutant: a Release whenever a context is held
ShouldRelease_whenever(fin, ctx) == ctx # NoContext

\* the condition of the finally block (line 579)
ShouldRelease(fin, ctx) == ~fin /\ ctx # NoContext

\* the finally block (lines 578-586), entered with exception exc in flight
Finally(fin, ctx, exc, h) ==
    /\ e_exc' = exc
    /\ IF ShouldRelease(fin, ctx)
       THEN /\ epc' = "release"
            /\ e_posted' = [e_posted EXCEPT !["Release"] = @ + 1]
            /\ ehist' = [h EXCEPT !.released = Append(@, ctx)]
       ELSE /\ epc' = "closed"
            /\ e_posted' = e_posted
            /\ ehist' = h

\* a mutant: the context first put into the Pull body stays there
PullContext_kept(ctx, next) == IF ctx # NoContext THEN ctx ELSE next

\* lines 563-568: context is removed from the Pull body, next_context
\* appended: what the body of the next Pull carries
PullContext(ctx, next) == next

\* the generator runs from a response, or from a yield, to where it next
\* suspends: a yield (line 560), the Pull request (line 570), the Release
\* request (line 580), or its end
Advance(w, h) ==
    LET w2 == WalkResponse(w)
        h2 == [h EXCEPT !.observed = w2.observed]
    IN  /\ resp' = w2.resp /\ items' = w2.items
        /\ next_context' = w2.next_context /\ finished' = w2.finished
        /\ IF w2.yielding
           THEN /\ epc' = "yield"
                /\ ehist' = [h2 EXCEPT !.yielded = @ + 1]
                /\ UNCHANGED <<context, e_exc, e_posted>>
           ELSE IF w2.next_context = NoContext
           THEN /\ context' = context
                /\ Finally(w2.finished, context, ProtocolError, h2)
           ELSE /\ context' = w2.next_context
                /\ IF ~w2.finished
                   THEN /\ e_posted["Pull"] < MaxPulls
                        /\ epc' = "pull"
                        /\ e_posted' = [e_posted EXCEPT !["Pull"] = @ + 1]
                        /\ ehist' = [h2 EXCEPT !.pulled =
                                        Append(@, PullContext(context, w2.next_context))]
                        /\ e_exc' = e_exc
                   ELSE Finally(TRUE, w2.next_context, NoExc, h2)

\* a mutant: every response starts from no context
Received_forgetful(r) ==
    [resp |-> r, items |-> 0, next_context |-> NoContext,
     finished |-> finished, observed |-> ehist.observed, yielding |-> FALSE]

\* the state of the for loop at the top of the while loop (line 554)
Received(r) == [resp |-> r, items |-> 0, next_context |-> context,
                finished |-> finished, observed |-> ehist.observed,
                yielding |-> FALSE]

\* the state of the for loop suspended at the yield
Suspended == [resp |-> resp, items |-> items, next_context |-> next_context,
              finished |-> finished, observed |-> ehist.observed,
              yielding |-> FALSE]

\* the consumer asks for the first item: lines 532-545
EnumerateCall ==
    /\ epc = "idle"
    /\ epc' = "enumerate"
    /\ e_posted' = [e_posted EXCEPT !["Enumerate"] = @ + 1]
    /\ UNCHANGED <<context, next_context, finished, resp, items, e_exc, ehist>>
    /\ UNCHANGED <<processVars, libVars>>

\* the EnumerateResponse arrives (lines 547-577)
EnumerateResponse ==
    /\ epc = "enumerate"
    /\ \E r \in EnumResponses :
          Advance(Received(r),
                  [ehist EXCEPT !.eos_received = @ \/ HasEndOfSequence(r),
                                !.fresh = HasEnumerationContext(r)])
    /\ UNCHANGED <<processVars, libVars>>

\* the Enumerate request raises: line 538 is outside the try
EnumerateFault ==
    /\ epc = "enumerate"
    /\ epc' = "closed"
    /\ e_exc' \in RequestErrors
    /\ UNCHANGED <<context, next_context, finished, resp, items, e_posted, ehist>>
    /\ UNCHANGED <<processVars, libVars>>

\* the consumer asks for the next item: the generator resumes after line 560
ConsumerNext ==
    /\ epc = "yield"
    /\ Advance(Suspended, ehist)
    /\ UNCHANGED <<processVars, libVars>>

\* the consumer closes the generator it holds an item of: GeneratorExit is
\* raised at line 560
ConsumerClose ==
    /\ epc = "yield"
    /\ Finally(finished, context, GeneratorExit, [ehist EXCEPT !.abandoned = TRUE])
    /\ UNCHANGED <<context, next_context, finished, resp, items>>
    /\ UNCHANGED <<processVars, libVars>>

\* the PullResponse arrives (lines 554-577)
PullResponse ==
    /\ epc = "pull"
    /\ \E r \in EnumResponses :
          Advance(Received(r),
                  [ehist EXCEPT !.eos_received = @ \/ HasEndOfSequence(r),
                                !.fresh = HasEnumerationContext(r)])
    /\ UNCHANGED <<processVars, libVars>>

\* the Pull request raises (line 570)
PullFault ==
    /\ epc = "pull"
    /\ \E exc \in RequestErrors : Finally(finished, context, exc, ehist)
    /\ UNCHANGED <<context, next_context, finished, resp, items>>
    /\ UNCHANGED <<processVars, libVars>>

\* the consumer is cancelled while it awaits the Pull request (line 570)
ConsumerCancel ==
    /\ epc = "pull"
    /\ Finally(finished, context, CancelledError, [ehist EXCEPT !.abandoned = TRUE])
    /\ UNCHANGED <<context, next_context, finished, resp, items>>
    /\ UNCHANGED <<processVars, libVars>>

\* the Release request returns (line 580): the generator ends
ReleaseReply ==
    /\ epc = "release"
    /\ epc' = "closed"
    /\ UNCHANGED <<context, next_context, finished, resp, items, e_exc, e_posted, ehist>>
    /\ UNCHANGED <<processVars, libVars>>

\* the Release request raises (line 580): the error replaces the one in flight
ReleaseFault ==
    /\ epc = "release"
    /\ epc' = "closed"
    /\ e_exc' \in RequestErrors
    /\ UNCHANGED <<context, next_context, finished, resp, items, e_posted, ehist>>
    /\ UNCHANGED <<processVars, libVars>>

InitEnum == InitWith(0, 0) /\ DefaultAuth /\ NoCall

NextEnum ==
    \/ EnumerateCall \/ EnumerateResponse \/ EnumerateFault
    \/ ConsumerNext \/ ConsumerClose \/ ConsumerCancel
    \/ PullResponse \/ PullFault
    \/ ReleaseReply \/ ReleaseFault

SpecEnum == InitEnum /\ [][NextEnum]_vars

(* ============== SPNEGOAuth and SPNEGOEncryptedAuth flows =============== *)
\* what _context.step() can do to the context c: it returns a token or None,
\* completes the context or not, or raises; a complete context stays complete
Step(c) ==
    {[raised |-> FALSE, token |-> t,
      context |-> [steps |-> c.steps + 1, complete |-> d]] :
        t \in BOOLEAN,
        d \in IF c.complete \/ c.steps + 1 >= MaxSteps THEN {TRUE} ELSE BOOLEAN}
    \cup {[raised |-> TRUE, token |-> FALSE, context |-> c]}

\* a mutant: the lock is never found taken
LockFree_always == TRUE

\* asyncio.Lock: _async_lock is not held
LockFree == auth_lock = NoRequest

\* a mutant: the handshake loop runs also with a complete context
NeedsStep_always(c) == TRUE

\* while not self._context.complete (lines 118, 168)
NeedsStep(c) == ~c.complete

\* the WWW-Authenticate header lines a response can come with: the scheme and
\* the text after the first space of each
WWWAuthenticate ==
    {<<>>,
     <<[scheme |-> "Negotiate", token |-> ""]>>,
     <<[scheme |-> "Negotiate", token |-> "dG9rZW4="]>>,
     <<[scheme |-> "NTLM", token |-> "dG9rZW4="]>>,
     <<[scheme |-> "Kerberos", token |-> "dG9rZW4="]>>,
     <<[scheme |-> "Kerberos", token |-> ""],
       [scheme |-> "negotiate", token |-> "dG9rZW4="]>>,
     <<[scheme |-> "Basic", token |-> "dG9rZW4="]>>,
     <<[scheme |-> "Negotiate", token |-> "dG9rZW4"]>>}

\* str.lower() on the scheme names above
Lower(scheme) ==
    CASE scheme = "Negotiate" -> "negotiate"
      [] scheme = "NTLM" -> "ntlm"
      [] scheme = "Kerberos" -> "kerberos"
      [] scheme = "Basic" -> "basic"
      [] OTHER -> scheme

\* a mutant: every scheme is taken
AllowedSchemes_any(protocol) == {"negotiate", "kerberos", "ntlm", "basic"}

\* _allowed_schemes (lines 56-61)
AllowedSchemes(protocol) ==
    IF protocol = "kerberos" THEN {"negotiate", "kerberos"}
    ELSE IF protocol = "ntlm" THEN {"negotiate", "ntlm"}
    ELSE {"negotiate", "kerberos", "ntlm"}

\* base64.b64decode on the texts above: the bytes, or binascii.Error for a
\* text whose padding is incorrect
B64Decode(text) ==
    IF text = "dG9rZW4=" THEN "token" ELSE "binascii.Error"

\* _decode_header (lines 63-71) from header line i on
RECURSIVE DecodeHeaderFrom(_, _, _)
DecodeHeaderFrom(protocol, headers, i) ==
    IF i > Len(headers) THEN None
    ELSE IF Lower(headers[i].scheme) \notin AllowedSchemes(protocol)
    THEN DecodeHeaderFrom(protocol, headers, i + 1)
    ELSE IF headers[i].token # ""
    THEN B64Decode(headers[i].token)
    ELSE DecodeHeaderFrom(protocol, headers, i + 1)

DecodeHeader(protocol, headers) == DecodeHeaderFrom(protocol, headers, 1)

\* the HTTP request httpx hands to the flow: the SOAP envelope as its content
PlainRequest(token) ==
    [content |-> "plaintext", content_length |-> "len(plaintext)",
     authorization |-> token]

\* _build_preflight_request (lines 133-139); token n is the n-th output token
\* of the context
BuildPreflightRequest(token) ==
    [content |-> "", content_length |-> "0", authorization |-> token]

\* _build_encrypted_request (lines 141-145) when wrap_winrm returns
BuildEncryptedRequest ==
    [content |-> "wrapped", content_length |-> "len(wrapped)",
     authorization |-> 0]

\* context.wrap_winrm returns with a complete context; what it does with one
\* that is not complete is the mechanism's matter: it returns or raises
WrapWinrm(c) == IF c.complete THEN {"returns"} ELSE {"returns", "raises"}

\* the generator of request r ends, normally or by an exception: the
\* async with block releases the lock
FlowEnds(r, pc) ==
    /\ apc' = [apc EXCEPT ![r] = pc]
    /\ auth_lock' = NoRequest
    /\ asent' = asent /\ awire' = awire

\* the flow of request r yields the HTTP request req of the given kind, built
\* with the context c, and keeps the lock while it waits for the response
Yields(r, kind, req, c, pc) ==
    /\ asent' = [asent EXCEPT ![r] = Append(@, kind)]
    /\ awire' = [awire EXCEPT ![r] =
                    Append(@, [request |-> req, complete |-> c.complete])]
    /\ apc' = [apc EXCEPT ![r] = pc]
    /\ auth_lock' = r

\* how the flow of request r took the response, Some(headers), that arrived
\* with the context c: the output token of the step it made, if any; with
\* Nothing the flow has not got to a response yet
Took(r, response, c, out_token) ==
    IF response = Nothing THEN alast' = alast
    ELSE alast' = [alast EXCEPT ![r] =
                     [n |-> IF alast[r] = NoResponse THEN 1 ELSE alast[r].n + 1,
                      headers |-> response[1], complete |-> c.complete,
                      out_token |-> out_token]]

\* SPNEGOEncryptedAuth: lines 179-180, after the while loop
EncryptedRequest(r, c) ==
    \E wrap \in WrapWinrm(c) :
        IF wrap = "raises" THEN FlowEnds(r, "failed")
        ELSE Yields(r, "encrypted", BuildEncryptedRequest, c, "final")

\* SPNEGOEncryptedAuth: lines 169-180 from the top of the while loop, which
\* the flow comes to with Nothing or with the response to a preflight
EncryptedLoop(r, response) ==
    IF NeedsStep(auth_context)
    THEN \E res \in Step(auth_context) :
            /\ auth_context' = res.context
            /\ Took(r, response, auth_context, res.token)
            /\ IF res.raised THEN FlowEnds(r, "failed")
               ELSE IF res.token
               THEN Yields(r, "preflight",
                           BuildPreflightRequest(res.context.steps),
                           res.context, "preflight")
               ELSE EncryptedRequest(r, res.context)
    ELSE /\ auth_context' = auth_context
         /\ Took(r, response, auth_context, FALSE)
         /\ EncryptedRequest(r, auth_context)

\* SPNEGOAuth: lines 115-118, the first step of the context and the request
PlainFirst(r) ==
    \E res \in Step(auth_context) :
        /\ auth_context' = res.context
        /\ IF res.raised THEN FlowEnds(r, "failed")
           ELSE Yields(r, "request",
                       PlainRequest(IF res.token THEN res.context.steps ELSE 0),
                       res.context, "round")

\* the body of async_auth_flow once the lock is held, up to its first yield
FlowBody(r) ==
    /\ astart' = [astart EXCEPT ![r] = auth_context.complete]
    /\ IF auth_encrypted THEN EncryptedLoop(r, Nothing)
       ELSE PlainFirst(r) /\ alast' = alast

\* httpx starts the auth flow of request r: async with self._async_lock
FlowBegin(r) ==
    /\ apc[r] = "idle"
    /\ IF LockFree /\ \A q \in Requests : apc[q] # "waiting"
       THEN FlowBody(r)
       ELSE /\ apc' = [apc EXCEPT ![r] = "waiting"]
            /\ UNCHANGED <<auth_lock, auth_context, asent, astart, awire, alast>>
    /\ UNCHANGED <<auth_encrypted, auth_protocol>>
    /\ UNCHANGED <<processVars, enumVars, callVars, envVars, moreVars>>

\* the lock was released and a waiting flow gets it
FlowResume(r) ==
    /\ apc[r] = "waiting" /\ LockFree
    /\ FlowBody(r)
    /\ UNCHANGED <<auth_encrypted, auth_protocol>>
    /\ UNCHANGED <<processVars, enumVars, callVars, envVars, moreVars>>

\* the task of a request that waits for the lock is cancelled
FlowCancelWait(r) ==
    /\ apc[r] = "waiting"
    /\ apc' = [apc EXCEPT ![r] = "failed"]
    /\ UNCHANGED <<auth_encrypted, auth_protocol, auth_lock, auth_context>>
    /\ UNCHANGED <<asent, astart, awire, alast>>
    /\ UNCHANGED <<processVars, enumVars, callVars, envVars, moreVars>>

\* the response to a preflight request arrives (lines 173-177, 169-172, 179)
PreflightResponse(r) ==
    /\ apc[r] = "preflight"
    /\ \E headers \in WWWAuthenticate :
          LET in_token == DecodeHeader(auth_protocol, headers)
              took(out_token) == Took(r, Some(headers), auth_context, out_token)
          IN  IF in_token = "binascii.Error"
              THEN /\ FlowEnds(r, "failed") /\ took(FALSE)
                   /\ auth_context' = auth_context
              ELSE IF in_token = None
              THEN /\ auth_context' = auth_context /\ took(FALSE)
                   /\ EncryptedRequest(r, auth_context)
              ELSE EncryptedLoop(r, Some(headers))
    /\ UNCHANGED <<auth_encrypted, auth_protocol, astart>>
    /\ UNCHANGED <<processVars, enumVars, callVars, envVars, moreVars>>

\* the response to the encrypted request arrives (lines 180-183): it is
\* decrypted, or decrypting raises, and the flow ends
FinalResponse(r) ==
    /\ apc[r] = "final"
    /\ \E pc \in {"done", "failed"} : FlowEnds(r, pc)
    /\ UNCHANGED <<auth_encrypted, auth_protocol, auth_context, astart, alast>>
    /\ UNCHANGED <<processVars, enumVars, callVars, envVars, moreVars>>

\* SPNEGOAuth: the response to the request arrives (lines 118-129)
RoundResponse(r) ==
    /\ apc[r] = "round"
    /\ \E headers \in WWWAuthenticate :
          LET in_token == DecodeHeader(auth_protocol, headers)
              took(out_token) == Took(r, Some(headers), auth_context, out_token)
          IN  IF ~NeedsStep(auth_context) \/ in_token = None
              THEN /\ FlowEnds(r, "done") /\ took(FALSE)
                   /\ auth_context' = auth_context
              ELSE IF in_token = "binascii.Error"
              THEN /\ FlowEnds(r, "failed") /\ took(FALSE)
                   /\ auth_context' = auth_context
              ELSE \E res \in Step(auth_context) :
                     /\ auth_context' = res.context
                     /\ took(res.token)
                     /\ IF res.raised THEN FlowEnds(r, "failed")
                        ELSE IF ~res.token THEN FlowEnds(r, "done")
                        ELSE Yields(r, "request",
                                    PlainRequest(res.context.steps),
                                    res.context, "round")
    /\ UNCHANGED <<auth_encrypted, auth_protocol, astart>>
    /\ UNCHANGED <<processVars, enumVars, callVars, envVars, moreVars>>

\* sending the yielded request fails or its task is cancelled: httpx closes
\* the generator, GeneratorExit leaves the async with block
FlowAbort(r) ==
    /\ apc[r] \in {"preflight", "final", "round"}
    /\ FlowEnds(r, "failed")
    /\ UNCHANGED <<auth_encrypted, auth_protocol, auth_context, astart, alast>>
    /\ UNCHANGED <<processVars, enumVars, callVars, envVars, moreVars>>

\* requests through one auth object of either class
InitAuth ==
    /\ InitWith(0, 0) /\ NoCall
    /\ auth_encrypted \in BOOLEAN /\ auth_protocol \in Protocols

NextAuth ==
    \E r \in Requests :
        \/ FlowBegin(r) \/ FlowResume(r) \/ FlowCancelWait(r)
        \/ PreflightResponse(r) \/ FinalResponse(r) \/ RoundResponse(r)
        \/ FlowAbort(r)

SpecAuth == InitAuth /\ [][NextAuth]_vars

(* ================= SOAPResponse and run_request (soap.py) ============== *)

\* HTTP status codes of a response
HttpStatuses == {200, 302, 401, 500}

\* httpx.Response.raise_for_status raises unless the status is 2xx
IsSuccess(status) == status >= 200 /\ status < 300

\* the Fault element of a Body: the text of Code/Value and of Reason/Text,
\* and its Detail: absent, without a WSManFault, or with one and its Code
\* attribute
Faults ==
    [code : {None, "s:Receiver"}, reason : {None, "failed"},
     detail : {"absent", "empty"}, wsman_code : {None}]
    \cup [code : {None, "s:Receiver"}, reason : {None, "failed"},
          detail : {"WSManFault"},
          wsman_code : {None, OtherFaultCode, OperationTimeoutCode}]

\* a Body without a Fault
NoFault == [code |-> None, reason |-> None, detail |-> "none", wsman_code |-> None]

\* the parsed responses of a server
SOAPResponses == [status : HttpStatuses, fault : Faults \cup {NoFault}]

\* what a call returns, or the exception it raises with its arguments
Returned == [type |-> "returned", code |-> None, reason |-> None, wsman_code |-> None]
Raised(type, code, reason, wsman_code) ==
    [type |-> type, code |-> code, reason |-> reason, wsman_code |-> wsman_code]

\* SOAPResponse.fault (lines 46-75): None, or (code, reason, wsman_code)
Fault(response) ==
    IF response.fault = NoFault THEN NoFault
    ELSE [code |-> response.fault.code, reason |-> response.fault.reason, detail |-> "",
          wsman_code |-> IF response.fault.detail = "WSManFault"
                         THEN response.fault.wsman_code ELSE None]

\* a mutant: the HTTP status is looked at before the fault
RaiseForStatus_status_first(response) ==
    IF ~IsSuccess(response.status) THEN Raised("TransportError", None, None, None)
    ELSE IF response.fault = NoFault THEN Returned
    ELSE Raised("SOAPFaultError", response.fault.code, response.fault.reason, None)

\* SOAPResponse.raise_for_status (lines 77-91) and run_request (lines 435-437)
RaiseForStatus(response) ==
    LET fault == Fault(response)
    IN  IF fault # NoFault
        THEN IF fault.wsman_code # None
             THEN Raised("WSManFaultError", fault.code, fault.reason, fault.wsman_code)
             ELSE Raised("SOAPFaultError", fault.code, fault.reason, None)
        ELSE IF ~IsSuccess(response.status)
        THEN Raised("TransportError", None, None, None)
        ELSE Returned

\* WSManagementClient.run_request on the response call_arg
RunRequest ==
    /\ call_result = NoResult
    /\ call_result' = RaiseForStatus(call_arg)
    /\ UNCHANGED <<call_arg, processVars, enumVars, authVars, envVars, moreVars>>

InitSoap ==
    /\ InitWith(0, 0) /\ DefaultAuth
    /\ call_arg \in SOAPResponses /\ call_result = NoResult

NextSoap == RunRequest

SpecSoap == InitSoap /\ [][NextSoap]_vars

(* ============ WinRM message encryption (auth/encryption.py) ============ *)
\* the longest plaintext, wrapped header and ciphertext
MaxBytes == 2

\* bytes: a run of ASCII text that the code handles as a whole, a raw byte,
\* an ASCII digit
Sym(name) == <<name, 0>>
Raw(n) == <<"byte", n>>
Digit(d) == <<"digit", d>>

CRLF == <<Sym("CRLF")>>
MIME_BOUNDARY == <<Sym("--Encrypted Boundary")>>
BoundaryLine == MIME_BOUNDARY \o CRLF
Terminator == MIME_BOUNDARY \o <<Sym("--")>> \o CRLF
ProtocolLine == <<Sym("\tContent-Type: application/HTTP-SPNEGO-session-encrypted")>> \o CRLF
OriginalContent == <<Sym("\tOriginalContent: type=application/soap+xml;charset=UTF-8;")>>
LengthKey == <<Sym("Length=")>>
OctetStreamLine == <<Sym("\tContent-Type: application/octet-stream")>> \o CRLF

\* the bytes a wrapped header and a ciphertext are made of
CipherBytes ==
    {Sym("a"), Sym("CRLF"), Sym("--Encrypted Boundary"),
     Sym("\tContent-Type: application/octet-stream")}

BytesUpTo(alphabet, lo, hi) == UNION {[1..n -> alphabet] : n \in lo..hi}

\* a message and what context.wrap_winrm makes of it
WrapCalls ==
    [message : BytesUpTo({Sym("a")}, 0, MaxBytes),
     header : BytesUpTo(CipherBytes, 1, MaxBytes),
     data : BytesUpTo(CipherBytes, 0, MaxBytes)]

\* a call returns bytes or raises
Bytes(v) == [type |-> "returned", value |-> v]
Raises(type) == [type |-> type, value |-> <<>>]
EncryptionError == Raises("EncryptionError")

\* context.unwrap_winrm of a context whose unwrap inverts its wrap: anything
\* but the header and ciphertext it produced fails its integrity check
UnwrapWinrm(ctx, wrapped_header, data) ==
    IF wrapped_header = ctx.header /\ data = ctx.data
    THEN Bytes(ctx.message) ELSE Raises("SpnegoError")

\* str(n).encode("ascii")
RECURSIVE Decimal(_)
Decimal(n) ==
    IF n < 10 THEN <<Digit(n)>> ELSE Decimal(n \div 10) \o <<Digit(n % 10)>>

\* int(b): the value of a run of digits, -1 for the ValueError of anything else
RECURSIVE ParseInt(_, _)
ParseInt(b, acc) ==
    IF b = <<>> THEN acc
    ELSE IF Head(b)[1] # "digit" THEN -1
    ELSE ParseInt(Tail(b), 10 * acc + Head(b)[2])

\* struct.pack("<i", n)
Le32(n) ==
    <<Raw(n % 256), Raw((n \div 256) % 256),
      Raw((n \div 65536) % 256), Raw(n \div 16777216)>>

\* struct.unpack("<i", b)[0] of four raw bytes
Le32Value(b) ==
    IF b[4][2] >= 128 THEN -1
    ELSE b[1][2] + 256 * b[2][2] + 65536 * b[3][2] + 16777216 * b[4][2]

StartsWith(b, prefix) ==
    Len(b) >= Len(prefix) /\ SubSeq(b, 1, Len(prefix)) = prefix

EndsWith(b, suffix) ==
    Len(b) >= Len(suffix) /\ SubSeq(b, Len(b) - Len(suffix) + 1, Len(b)) = suffix

\* b.split(sep), with cur the part being collected
RECURSIVE Split(_, _, _)
Split(b, sep, cur) ==
    IF b = <<>> THEN <<cur>>
    ELSE IF StartsWith(b, sep)
    THEN <<cur>> \o Split(SubSeq(b, Len(sep) + 1, Len(b)), sep, <<>>)
    ELSE Split(Tail(b), sep, Append(cur, Head(b)))

\* b.replace(old, b"")
RECURSIVE Remove(_, _)
Remove(b, old) ==
    IF b = <<>> THEN <<>>
    ELSE IF StartsWith(b, old) THEN Remove(SubSeq(b, Len(old) + 1, Len(b)), old)
    ELSE <<Head(b)>> \o Remove(Tail(b), old)

\* b.strip()
RECURSIVE Strip(_)
Strip(b) ==
    IF b # <<>> /\ <<Head(b)>> = CRLF THEN Strip(Tail(b))
    ELSE IF b # <<>> /\ <<b[Len(b)]>> = CRLF THEN Strip(SubSeq(b, 1, Len(b) - 1))
    ELSE b

\* _encrypt_message (lines 15-30)
EncryptMessageBody(ctx) ==
    BoundaryLine \o ProtocolLine
        \o OriginalContent \o LengthKey \o Decimal(Len(ctx.message)) \o CRLF
        \o BoundaryLine \o OctetStreamLine
        \o Le32(Len(ctx.header)) \o ctx.header \o ctx.data

\* encrypt_message (lines 76-85): the body and its Content-Type
EncryptMessage(ctx) ==
    [content |-> EncryptMessageBody(ctx) \o Terminator,
     content_type |-> "multipart/encrypted"]

\* _decrypt_message (lines 33-43)
DecryptMessage(ctx, encrypted_data) ==
    IF Len(encrypted_data) < 4 THEN EncryptionError
    ELSE LET header_length == Le32Value(SubSeq(encrypted_data, 1, 4))
         IN  IF header_length < 0 \/ Len(encrypted_data) < 4 + header_length
             THEN EncryptionError
             ELSE UnwrapWinrm(ctx,
                              SubSeq(encrypted_data, 5, 4 + header_length),
                              SubSeq(encrypted_data, 5 + header_length,
                                     Len(encrypted_data)))

\* int(header.split(b"Length=")[1]) (lines 57-60), -1 when it raises
ExpectedLength(part_header) ==
    LET pieces == Split(part_header, LengthKey, <<>>)
    IN  IF Len(pieces) < 2 \/ Strip(pieces[2]) = <<>> THEN -1
        ELSE ParseInt(Strip(pieces[2]), 0)

\* the loop of _decrypt_response from pair i on (lines 51-71)
RECURSIVE DecryptParts(_, _, _, _)
DecryptParts(ctx, parts, i, message) ==
    IF i > Len(parts) THEN Bytes(message)
    ELSE IF i + 1 > Len(parts) THEN EncryptionError
    ELSE LET expected_length == ExpectedLength(Strip(parts[i]))
             payload == IF EndsWith(parts[i + 1], Terminator)
                        THEN SubSeq(parts[i + 1], 1,
                                    Len(parts[i + 1]) - Len(Terminator))
                        ELSE parts[i + 1]
             decrypted == DecryptMessage(ctx, Remove(payload, OctetStreamLine))
         IN  IF expected_length < 0 THEN EncryptionError
             ELSE IF decrypted.type # "returned" THEN decrypted
             ELSE IF Len(decrypted.value) # expected_length THEN EncryptionError
             ELSE DecryptParts(ctx, parts, i + 2, message \o decrypted.value)

\* _decrypt_response (lines 46-73)
DecryptResponse(ctx, content) ==
    DecryptParts(ctx,
                 SelectSeq(Split(content, BoundaryLine, <<>>), LAMBDA part : part # <<>>),
                 1, <<>>)

\* decrypt_response_content (lines 88-91)
DecryptResponseContent(ctx, content, content_type) ==
    IF content_type = "multipart/encrypted"
    THEN DecryptResponse(ctx, content) ELSE Bytes(content)

\* encrypt_message, then decrypt_response_content of what it built
RoundTrip ==
    /\ call_result = NoResult
    /\ LET encrypted == EncryptMessage(call_arg)
       IN  call_result' = DecryptResponseContent(call_arg, encrypted.content,
                                                 encrypted.content_type)
    /\ UNCHANGED <<call_arg, processVars, enumVars, authVars, envVars, moreVars>>

InitEncryption ==
    /\ InitWith(0, 0) /\ DefaultAuth
    /\ call_arg \in WrapCalls /\ call_result = NoResult

NextEncryption == RoundTrip

SpecEncryption == InitEncryption /\ [][NextEncryption]_vars

(* ================= WSManagementEnvelope (client/wsman.py) ============== *)
\* assignments to the properties of one envelope
MaxAssignments == 3

\* the values assigned
Texts == {"a", "b"}
Names == {"Name"}
Sizes == {0, 12}
Dicts == UNION {[D -> Texts] : D \in SUBSET Names}
Optional(S) == {Nothing} \cup {Some(x) : x \in S}

\* etree.Element(tag): no text, no attribute, no child
NewElement(tag) ==
    [tag |-> tag, text |-> Nothing, must |-> Nothing, lang |-> Nothing,
     name |-> Nothing, children |-> <<>>]

\* parent.find(tag): the position of the first child of that tag, 0 for None
Find(children, tag) ==
    IF \E i \in DOMAIN children : children[i].tag = tag
    THEN CHOOSE i \in DOMAIN children :
            /\ children[i].tag = tag
            /\ \A j \in 1..(i - 1) : children[j].tag # tag
    ELSE 0

\* parent.remove(child) of the child at position i
RemoveAt(children, i) ==
    SubSeq(children, 1, i - 1) \o SubSeq(children, i + 1, Len(children))

\* a setter returns, or raises leaving the Header as h
Done(h) == [header |-> h, exc |-> "none"]
ValueError(h) == [header |-> h, exc |-> "ValueError"]

\* the setters of to, action, message_id, resource_uri, timeout and max_size:
\* find the element, create it with its mustUnderstand if a value comes and
\* there is none, then set its text, or remove it for None
SetTextElement(h, tag, must, new_value) ==
    LET created == IF Find(h, tag) = 0 /\ new_value # Nothing
                   THEN Append(h, [NewElement(tag) EXCEPT !.must = must])
                   ELSE h
        i == Find(created, tag)
    IN  IF i # 0 /\ new_value # Nothing
        THEN Done([created EXCEPT ![i].text = new_value])
        ELSE IF i # 0 THEN Done(RemoveAt(created, i))
        ELSE Done(created)

\* their getters: the text of the element, None without it
GetTextElement(h, tag) ==
    IF Find(h, tag) # 0 THEN h[Find(h, tag)].text ELSE Nothing

SetTo(h, new_value) == SetTextElement(h, "To", Nothing, new_value)

\* a mutant: Action without mustUnderstand
SetAction_plain(h, new_value) == SetTextElement(h, "Action", Nothing, new_value)

SetAction(h, new_value) == SetTextElement(h, "Action", Some("true"), new_value)

SetMessageId(h, new_value) == SetTextElement(h, "MessageID", Nothing, new_value)

SetResourceUri(h, new_value) ==
    SetTextElement(h, "ResourceURI", Some("true"), new_value)

SetTimeout(h, new_value) ==
    SetTextElement(h, "OperationTimeout", Nothing, new_value)

\* el_max_size.text = str(new_value)
SetMaxSize(h, new_value) ==
    SetTextElement(h, "MaxEnvelopeSize", Some("true"),
                   IF new_value = Nothing THEN Nothing
                   ELSE Some(Decimal(new_value[1])))

\* int(el_max_size.text)
GetMaxSize(h) ==
    LET value == GetTextElement(h, "MaxEnvelopeSize")
    IN  IF value = Nothing THEN Nothing ELSE Some(ParseInt(value[1], 0))

\* the setter of reply_to (lines 58-75)
SetReplyTo(h, new_value) ==
    LET created == IF Find(h, "ReplyTo") = 0 /\ new_value # Nothing
                   THEN Append(h, NewElement("ReplyTo"))
                   ELSE h
        i == Find(created, "ReplyTo")
    IN  IF i = 0 THEN Done(created)
        ELSE LET el_reply_to ==
                     IF Find(created[i].children, "Address") = 0 /\ new_value # Nothing
                     THEN [created[i] EXCEPT !.children =
                              Append(@, [NewElement("Address") EXCEPT !.must = Some("true")])]
                     ELSE created[i]
                 a == Find(el_reply_to.children, "Address")
             IN  IF a # 0 /\ new_value # Nothing
                 THEN Done([created EXCEPT ![i] =
                              [el_reply_to EXCEPT !.children[a].text = new_value]])
                 \* self.header.remove(el_address): el_address is a child of
                 \* el_reply_to, not of the Header
                 ELSE IF a # 0 THEN ValueError(created)
                 ELSE Done(RemoveAt(created, i))

\* the getter of reply_to (lines 48-56)
GetReplyTo(h) ==
    LET i == Find(h, "ReplyTo")
    IN  IF i = 0 THEN Nothing
        ELSE GetTextElement(h[i].children, "Address")

\* the setters of locale and data_locale (lines 194-204, 211-221)
SetLangElement(h, tag, new_value) ==
    LET created == IF Find(h, tag) = 0 /\ new_value # Nothing
                   THEN Append(h, [NewElement(tag) EXCEPT !.must = Some("false")])
                   ELSE h
        i == Find(created, tag)
    IN  IF i # 0 /\ new_value # Nothing
        THEN Done([created EXCEPT ![i].lang = new_value])
        ELSE IF i # 0 THEN Done(RemoveAt(created, i))
        ELSE Done(created)

GetLangElement(h, tag) ==
    IF Find(h, tag) # 0 THEN h[Find(h, tag)].lang ELSE Nothing

\* the Selector or Option children made of the items of a dict
RECURSIVE DictItems(_, _, _)
DictItems(d, names, child_tag) ==
    IF names = {} THEN <<>>
    ELSE LET n == CHOOSE n \in names : TRUE
         IN  <<[NewElement(child_tag) EXCEPT !.name = Some(n), !.text = Some(d[n])]>>
                 \o DictItems(d, names \ {n}, child_tag)

\* the setters of selectors and options (lines 140-160, 172-187);
\* el.clear() drops the children and the attributes of the element
SetDictElement(h, tag, child_tag, must, new_value) ==
    LET found == Find(h, tag)
        created == IF found = 0 /\ new_value # Nothing
                   THEN Append(h, [NewElement(tag) EXCEPT !.must = must])
                   ELSE IF found # 0 /\ new_value # Nothing
                   THEN [h EXCEPT ![found] = NewElement(tag)]
                   ELSE h
        i == Find(created, tag)
    IN  IF i # 0 /\ new_value # Nothing
        THEN Done([created EXCEPT ![i].children =
                      @ \o DictItems(new_value[1], DOMAIN new_value[1], child_tag)])
        ELSE IF i # 0 THEN Done(RemoveAt(created, i))
        ELSE Done(created)

\* their getters (lines 130-138, 162-170): a later child of a name wins
GetDictElement(h, tag, child_tag) ==
    LET i == Find(h, tag)
    IN  IF i = 0 THEN Nothing
        ELSE LET c == SelectSeq(h[i].children, LAMBDA el : el.tag = child_tag)
                 Last(n) == CHOOSE k \in DOMAIN c :
                               /\ c[k].name = Some(n)
                               /\ \A j \in DOMAIN c : c[j].name = Some(n) => j <= k
             IN  Some([n \in {c[k].name[1] : k \in DOMAIN c} |-> c[Last(n)].text[1]])

SetSelectors(h, new_value) ==
    SetDictElement(h, "SelectorSet", "Selector", Nothing, new_value)

SetOptions(h, new_value) ==
    SetDictElement(h, "OptionSet", "Option", Some("true"), new_value)

\* envelope.<property> = new_value
Set(property, h, new_value) ==
    CASE property = "to" -> SetTo(h, new_value)
      [] property = "reply_to" -> SetReplyTo(h, new_value)
      [] property = "action" -> SetAction(h, new_value)
      [] property = "message_id" -> SetMessageId(h, new_value)
      [] property = "resource_uri" -> SetResourceUri(h, new_value)
      [] property = "selectors" -> SetSelectors(h, new_value)
      [] property = "options" -> SetOptions(h, new_value)
      [] property = "locale" -> SetLangElement(h, "Locale", new_value)
      [] property = "data_locale" -> SetLangElement(h, "DataLocale", new_value)
      [] property = "timeout" -> SetTimeout(h, new_value)
      [] property = "max_size" -> SetMaxSize(h, new_value)

\* envelope.<property>
Get(property, h) ==
    CASE property = "to" -> GetTextElement(h, "To")
      [] property = "reply_to" -> GetReplyTo(h)
      [] property = "action" -> GetTextElement(h, "Action")
      [] property = "message_id" -> GetTextElement(h, "MessageID")
      [] property = "resource_uri" -> GetTextElement(h, "ResourceURI")
      [] property = "selectors" -> GetDictElement(h, "SelectorSet", "Selector")
      [] property = "options" -> GetDictElement(h, "OptionSet", "Option")
      [] property = "locale" -> GetLangElement(h, "Locale")
      [] property = "data_locale" -> GetLangElement(h, "DataLocale")
      [] property = "timeout" -> GetTextElement(h, "OperationTimeout")
      [] property = "max_size" -> GetMaxSize(h)

\* what a property can be assigned
Values(property) ==
    CASE property \in {"selectors", "options"} -> Optional(Dicts)
      [] property = "max_size" -> Optional(Sizes)
      [] OTHER -> Optional(Texts)

\* one assignment to a typed property of the envelope
Assign(property) ==
    /\ n_assigned < MaxAssignments
    /\ \E new_value \in Values(property) :
          LET r == Set(property, header, new_value)
          IN  /\ header' = r.header /\ set_exc' = r.exc
              /\ assigned' = [assigned EXCEPT ![property] = new_value]
    /\ n_assigned' = n_assigned + 1
    /\ UNCHANGED <<processVars, enumVars, authVars, callVars, moreVars>>

InitEnvelope == InitWith(0, 0) /\ DefaultAuth /\ NoCall

NextEnvelope == \E property \in Properties : Assign(property)

SpecEnvelope == InitEnvelope /\ [][NextEnvelope]_vars

(* ------------------ WSManagementClient.build_request ------------------- *)
\* sec_to_duration of a number of seconds under a minute
SecToDuration(seconds) == <<"PT", seconds, "S">>

\* a or b
Or(a, b) == IF a # Nothing /\ a # Some(0) THEN a ELSE b

\* the arguments of build_request and the settings of the client
BuildArgs ==
    [action : {"Get", "Pull"},
     resource_uri : Optional({"a"}),
     message_id : Optional({"urn:uuid:1"}),
     selectors : Optional(Dicts),
     options : Optional(Dicts),
     locale : Optional({"en-US"}),
     timeout : Optional({20}),
     max_size : Optional(Sizes),
     self_locale : Optional({"de-DE"}),
     self_timeout : Optional({30}),
     self_max_envelope_size : Optional({153600})]

\* the Header build_request gives a new envelope (lines 392-413)
BuiltHeader(args) ==
    LET locale == IF args.locale = Nothing THEN args.self_locale ELSE args.locale
        timeout == IF args.timeout = Nothing THEN args.self_timeout ELSE args.timeout
        h1 == SetTo(<<>>, Some("endpoint")).header
        h2 == SetReplyTo(h1, Some("http://schemas.xmlsoap.org/ws/2004/08/addressing/role/anonymous")).header
        h3 == SetAction(h2, Some(args.action)).header
        h4 == SetMessageId(h3, IF args.message_id # Nothing THEN args.message_id
                               ELSE Some("urn:uuid:uuid4")).header
        h5 == SetResourceUri(h4, args.resource_uri).header
        h6 == SetSelectors(h5, args.selectors).header
        h7 == SetOptions(h6, args.options).header
        h8 == SetLangElement(h7, "Locale", locale).header
        h9 == SetLangElement(h8, "DataLocale", locale).header
        h10 == IF timeout # Nothing
               THEN SetTimeout(h9, Some(SecToDuration(timeout[1]))).header
               ELSE h9
    IN  SetMaxSize(h10, Or(args.max_size, args.self_max_envelope_size)).header

Built == [type |-> "envelope"]

\* build_request with the arguments call_arg
BuildRequest ==
    /\ call_result = NoResult
    /\ header' = BuiltHeader(call_arg)
    /\ call_result' = Built
    /\ UNCHANGED <<call_arg, assigned, set_exc, n_assigned>>
    /\ UNCHANGED <<processVars, enumVars, authVars, moreVars>>

InitBuild ==
    /\ InitWith(0, 0) /\ DefaultAuth
    /\ call_arg \in BuildArgs /\ call_result = NoResult

NextBuild == BuildRequest

SpecBuild == InitBuild /\ [][NextBuild]_vars

(* ================== MessageIDs of the requests built =================== *)
\* requests built
MaxBuilds == 4

\* message ids a caller passes
ExplicitMessageIds == {0}

\* uuid.uuid4(): a value no earlier call returned
Uuid4 == uuid_calls + 1

\* WSManagementClient.build_request (wsman.py line 396): message_id, or a new
\* uuid for None
BuildRequestId(message_id) ==
    /\ Len(built) < MaxBuilds
    /\ IF message_id # Nothing
       THEN /\ built' = Append(built, [builder |-> "build_request", explicit |-> TRUE,
                                       id |-> message_id[1]])
            /\ uuid_calls' = uuid_calls
       ELSE /\ built' = Append(built, [builder |-> "build_request", explicit |-> FALSE,
                                       id |-> Uuid4])
            /\ uuid_calls' = Uuid4
    /\ UNCHANGED <<processVars, enumVars, authVars, callVars, envVars, syncVars, laterVars>>

\* BaseConnection.request_stream (base.py lines 123-144): _build_request is
\* called without message_id and uses the default of its parameter
RequestStreamId ==
    /\ Len(built) < MaxBuilds
    /\ built' = Append(built, [builder |-> "_build_request", explicit |-> FALSE,
                               id |-> DefaultMessageId])
    /\ UNCHANGED <<uuid_calls, processVars, enumVars, authVars, callVars, envVars, syncVars, laterVars>>

InitIds == InitWith(0, 0) /\ DefaultAuth /\ NoCall

NextIds ==
    \/ \E message_id \in Optional(ExplicitMessageIds) : BuildRequestId(message_id)
    \/ RequestStreamId

SpecIds == InitIds /\ [][NextIds]_vars

(* ============ dictify (client/winrm.py, services.py) =================== *)
\* the longest text of a child element, in characters
MaxText == 3

\* characters of a text; "true" and "false" stand for these runs of letters
TextChars == {"0", "1", "-", "+", " ", "_", "a", "true", "false"}
DigitChars == <<"0", "1", "2", "3", "4", "5", "6", "7", "8", "9">>
IsDigit(c) == \E d \in DOMAIN DigitChars : DigitChars[d] = c
DigitValue(c) == (CHOOSE d \in DOMAIN DigitChars : DigitChars[d] = c) - 1

\* the children dictify meets: the xsi:nil attribute and the text
Children ==
    [nil : Optional({"true", "false"}),
     text : Optional(UNION {[1..n -> TextChars] : n \in 1..MaxText})]

\* Python values: None, a bool, an int, a str
PyNone == [kind |-> "None", bool |-> FALSE, int |-> 0, str |-> <<>>]
PyBool(b) == [kind |-> "bool", bool |-> b, int |-> 0, str |-> <<>>]
PyInt(n) == [kind |-> "int", bool |-> FALSE, int |-> n, str |-> <<>>]
PyStr(t) == [kind |-> "str", bool |-> FALSE, int |-> 0, str |-> t]

\* str.strip() of whitespace
RECURSIVE StripSpaces(_)
StripSpaces(t) ==
    IF t # <<>> /\ Head(t) = " " THEN StripSpaces(Tail(t))
    ELSE IF t # <<>> /\ t[Len(t)] = " " THEN StripSpaces(SubSeq(t, 1, Len(t) - 1))
    ELSE t

\* the digits int() accepts after the sign: digits with single underscores
\* between them
IsIntDigits(t) ==
    /\ t # <<>>
    /\ \A i \in DOMAIN t : IsDigit(t[i]) \/ t[i] = "_"
    /\ IsDigit(t[1]) /\ IsDigit(t[Len(t)])
    /\ \A i \in 1..(Len(t) - 1) : ~(t[i] = "_" /\ t[i + 1] = "_")

RECURSIVE DigitsValue(_, _)
DigitsValue(t, acc) ==
    IF t = <<>> THEN acc
    ELSE IF Head(t) = "_" THEN DigitsValue(Tail(t), acc)
    ELSE DigitsValue(Tail(t), 10 * acc + DigitValue(Head(t)))

\* int(text) of a str: surrounding whitespace is dropped, one sign is taken,
\* then the digits; Nothing for ValueError
IntOf(text) ==
    LET t == StripSpaces(text)
        signed == t # <<>> /\ Head(t) \in {"+", "-"}
        digits == IF signed THEN Tail(t) ELSE t
    IN  IF ~IsIntDigits(digits) THEN Nothing
        ELSE IF signed /\ Head(t) = "-" THEN Some(0 - DigitsValue(digits, 0))
        ELSE Some(DigitsValue(digits, 0))

\* str(n) of an int
RECURSIVE StrOfNat(_)
StrOfNat(n) ==
    IF n < 10 THEN <<DigitChars[n + 1]>>
    ELSE StrOfNat(n \div 10) \o <<DigitChars[(n % 10) + 1]>>

StrOf(n) == IF n < 0 THEN <<"-">> \o StrOfNat(0 - n) ELSE StrOfNat(n)

\* _dictify_coerce (winrm.py lines 17-26)
DictifyCoerce(text) ==
    IF text = Nothing THEN PyNone
    ELSE IF text[1] = <<"false">> THEN PyBool(FALSE)
    ELSE IF text[1] = <<"true">> THEN PyBool(TRUE)
    ELSE IF IntOf(text[1]) # Nothing THEN PyInt(IntOf(text[1])[1])
    ELSE PyStr(text[1])

\* _coerce_wmi_text (services.py lines 59-69): the same tests in the same order
CoerceWmiText(text) ==
    IF text = Nothing THEN PyNone
    ELSE IF text[1] = <<"false">> THEN PyBool(FALSE)
    ELSE IF text[1] = <<"true">> THEN PyBool(TRUE)
    ELSE IF IntOf(text[1]) # Nothing THEN PyInt(IntOf(text[1])[1])
    ELSE PyStr(text[1])

\* the value dictify gives the child call_arg (winrm.py lines 29-38)
Dictify ==
    /\ call_result = NoResult
    /\ call_result' = [type |-> "dictify",
                       value |-> IF call_arg.nil = Some("true") THEN PyNone
                                 ELSE DictifyCoerce(call_arg.text)]
    /\ UNCHANGED <<call_arg, processVars, enumVars, authVars, envVars, moreVars>>

\* the value _parse_cim_element gives the child call_arg (services.py lines 72-88)
ParseCimElement ==
    /\ call_result = NoResult
    /\ call_result' = [type |-> "_parse_cim_element",
                       value |-> IF call_arg.nil = Some("true") THEN PyNone
                                 ELSE CoerceWmiText(call_arg.text)]
    /\ UNCHANGED <<call_arg, processVars, enumVars, authVars, envVars, moreVars>>

InitDictify ==
    /\ InitWith(0, 0) /\ DefaultAuth
    /\ call_arg \in Children /\ call_result = NoResult

NextDictify == Dictify \/ ParseCimElement

SpecDictify == InitDictify /\ [][NextDictify]_vars

(* ===== Process.returncode, communicate() and the event loop (shell.py) == *)
\* ReceiveResponses of the command
MaxSyncResponses == 2

\* a ReceiveResponse: per stream nothing, data, or End="true"; then a
\* CommandState/Done with its exit code, or none
SyncResponses ==
    [stdout : {"none", "data", "end"}, stderr : {"none", "data", "end"},
     done : Optional({3})]

\* what the steps of the tasks work on
LoopRecord ==
    [ready |-> ready, pipes |-> pipes, rc_future |-> rc_future,
     comm_pc |-> comm_pc, blocked_on |-> blocked_on, seen |-> seen]

\* Future.set_result of what the caller awaits: its task is made ready
Wake(st, what) ==
    IF st.blocked_on = what
    THEN [st EXCEPT !.blocked_on = "nothing", !.ready = Append(@, "communicate")]
    ELSE st

\* StreamReader.feed_data of some bytes, StreamReader.feed_eof
PipeFeedData(st, n) == Wake([st EXCEPT !.pipes[n].data = TRUE], n)
PipeFeedEof(st, n) == Wake([st EXCEPT !.pipes[n].eof = TRUE], n)

\* lines 518-536 for the Stream element of stream n
StreamElement(st, n, what) ==
    CASE what = "none" -> st
      [] what = "data" -> PipeFeedData(st, n)
      [] what = "end" -> PipeFeedEof(st, n)

\* a mutant: set_result without scheduling the done callbacks
FutureSetResult_no_callbacks(st, value) ==
    IF st.rc_future.done THEN st
    ELSE [st EXCEPT !.rc_future = [done |-> TRUE, result |-> value, callbacks |-> <<>>],
                    !.blocked_on = IF @ = "future" THEN "nothing" ELSE @]

\* lines 558-560: returncode_future.set_result unless it is done; the done
\* callbacks are scheduled in the order they were added
FutureSetResult(st, value) ==
    IF st.rc_future.done THEN st
    ELSE [st EXCEPT !.rc_future = [done |-> TRUE, result |-> value, callbacks |-> <<>>],
                    !.ready = @ \o st.rc_future.callbacks,
                    !.blocked_on = IF @ = "future" THEN "nothing" ELSE @]

\* communicate() without input, then wait() (lines 183-205, test.py lines
\* 78-79), from where the caller stands until it has to wait or is through
RECURSIVE CommunicateFrom(_)
CommunicateFrom(st) ==
    CASE st.comm_pc \in StreamNames ->
            LET n == st.comm_pc
                read == [st EXCEPT !.pipes[n].data = FALSE]
            IN  IF ~read.pipes[n].eof THEN [read EXCEPT !.blocked_on = n]
                ELSE CommunicateFrom([read EXCEPT !.comm_pc =
                                        IF n = "stdout" THEN "stderr" ELSE "wait"])
      [] st.comm_pc = "wait" ->
            IF st.rc_future.done
            THEN [st EXCEPT !.comm_pc = "returned",
                            !.seen = [returned |-> TRUE, returncode |-> returncode,
                                      awaited |-> st.seen.awaited]]
            ELSE [st EXCEPT !.blocked_on = "future",
                            !.rc_future.callbacks = Append(@, "communicate"),
                            !.seen.awaited = TRUE]

\* the variables after a step that ends in st
Becomes(st) ==
    /\ ready' = st.ready /\ pipes' = st.pipes /\ rc_future' = st.rc_future
    /\ comm_pc' = st.comm_pc /\ blocked_on' = st.blocked_on /\ seen' = st.seen

\* the caller calls communicate()
CommunicateCall ==
    /\ comm_pc = "not_called"
    /\ Becomes(CommunicateFrom([LoopRecord EXCEPT !.comm_pc = "stdout"]))
    /\ UNCHANGED <<recv_pc, flags, returncode, n_responses>>
    /\ UNCHANGED <<processVars, enumVars, authVars, callVars, envVars, idVars, laterVars>>

\* the ReceiveResponse, or the answer to the Signal, is there: the receive
\* task is made ready
ReplyArrives ==
    /\ recv_pc \in {"receiving", "signalling"}
    /\ recv_pc = "receiving" => n_responses < MaxSyncResponses
    /\ recv_pc' = IF recv_pc = "receiving" THEN "response" ELSE "signalled"
    /\ ready' = Append(ready, "_receive_loop")
    /\ UNCHANGED <<flags, pipes, rc_future, returncode, comm_pc, blocked_on,
                   n_responses, seen>>
    /\ UNCHANGED <<processVars, enumVars, authVars, callVars, envVars, idVars, laterVars>>

\* the rest of the finally block (lines 565-574) with pipe readers
FinallyFeedEof(st) == PipeFeedEof(PipeFeedEof(st, "stdout"), "stderr")

\* the receive task runs with a ReceiveResponse: lines 507-564
RunReceiveLoop ==
    /\ ready # <<>> /\ Head(ready) = "_receive_loop" /\ recv_pc = "response"
    /\ n_responses' = n_responses + 1
    /\ returncode' = returncode
    /\ \E r \in SyncResponses :
          LET st == StreamElement(
                        StreamElement([LoopRecord EXCEPT !.ready = Tail(@)],
                                      "stdout", r.stdout),
                        "stderr", r.stderr)
              f == [flags EXCEPT
                       !.stdout_finished = @ \/ r.stdout = "end",
                       !.stderr_finished = @ \/ r.stderr = "end",
                       !.done_seen = r.done # Nothing]
              ended == f.done_seen \/ (f.stdout_finished /\ f.stderr_finished)
              result == IF r.done # Nothing THEN r.done[1] ELSE 0
          IN  IF ~ended
              THEN /\ Becomes(st) /\ flags' = f /\ recv_pc' = "receiving"
              ELSE IF f.done_seen
              THEN /\ Becomes(FutureSetResult(st, result))
                   /\ flags' = [f EXCEPT
                         !.both_eof_at_done = st.pipes["stdout"].eof /\ st.pipes["stderr"].eof,
                         !.reading_at_done = blocked_on \in StreamNames]
                   /\ recv_pc' = "signalling"
              ELSE /\ Becomes(FinallyFeedEof(FutureSetResult(st, result)))
                   /\ flags' = f /\ recv_pc' = "ended"
    /\ UNCHANGED <<processVars, enumVars, authVars, callVars, envVars, idVars, laterVars>>

\* the receive task runs after the Signal: lines 565-574
RunFinally ==
    /\ ready # <<>> /\ Head(ready) = "_receive_loop" /\ recv_pc = "signalled"
    /\ Becomes(FinallyFeedEof([LoopRecord EXCEPT !.ready = Tail(@)]))
    /\ recv_pc' = "ended"
    /\ UNCHANGED <<flags, returncode, n_responses>>
    /\ UNCHANGED <<processVars, enumVars, authVars, callVars, envVars, idVars, laterVars>>

\* the event loop runs Process._sync_returncode (lines 177-181)
RunSyncReturncode ==
    /\ ready # <<>> /\ Head(ready) = "_sync_returncode"
    /\ ready' = Tail(ready)
    /\ returncode' = Some(rc_future.result)
    /\ UNCHANGED <<recv_pc, flags, pipes, rc_future, comm_pc, blocked_on,
                   n_responses, seen>>
    /\ UNCHANGED <<processVars, enumVars, authVars, callVars, envVars, idVars, laterVars>>

\* the event loop runs the caller's task
RunCommunicate ==
    /\ ready # <<>> /\ Head(ready) = "communicate"
    /\ Becomes(CommunicateFrom([LoopRecord EXCEPT !.ready = Tail(@)]))
    /\ UNCHANGED <<recv_pc, flags, returncode, n_responses>>
    /\ UNCHANGED <<processVars, enumVars, authVars, callVars, envVars, idVars, laterVars>>

InitSync == InitWith(0, 0) /\ DefaultAuth /\ NoCall

NextSync ==
    \/ CommunicateCall \/ ReplyArrives \/ RunReceiveLoop \/ RunFinally
    \/ RunSyncReturncode \/ RunCommunicate

SpecSync == InitSync /\ [][NextSync]_vars

(* ===== several commands in one Shell: locks and stdin sources ========== *)
\* the stdin argument of spawn: PIPE, a StreamReader, a file or descriptor,
\* DEVNULL (lines 361-369)
StdinSources == {"pipe", "reader", "file", "devnull"}

notLocks == <<processVars, enumVars, authVars, callVars, envVars, idVars, syncVars, mergeVars, pipeVars,
              spawnVars>>

Without(q, c) == SelectSeq(q, LAMBDA x : x # c)

\* spawn (lines 315-398): the context is opened with receive_idle set, the
\* stdin task and the receive task are created
SpawnCommand(c, source) ==
    /\ stdin_of[c] = "unspawned"
    /\ stdin_of' = [stdin_of EXCEPT ![c] = source]
    /\ ctx_of' = [ctx_of EXCEPT ![c] = [open |-> TRUE, done_event |-> FALSE,
                                        receive_cancel |-> FALSE, receive_idle |-> TRUE]]
    /\ tasks' = [tasks EXCEPT ![c] = [receive |-> "loop", stdin |-> "idle", woken |-> FALSE]]
    /\ UNCHANGED <<locks, inflight, counts, send_steps, send_posts>>
    /\ UNCHANGED notLocks

\* a mutant: no _send call cancels the Receive
CancelsReceive_never(c) == FALSE

\* line 595: cancel_receive and context is not None; cancel_receive is
\* True in the ShellWriter (lines 145, 149) and False in spawn for DEVNULL
\* (line 366) and in _feed_stdin (lines 640-754)
CancelsReceive(c) == stdin_of[c] = "pipe" /\ ctx_of[c].open

\* lines 601-606: async with self._send_lock, then the Send is posted
TakeSendLock(c, steps) ==
    /\ locks' = [locks EXCEPT !.send = Append(@, c)]
    /\ IF locks.send = <<>>
       THEN /\ inflight' = [inflight EXCEPT !.send = @ \cup {c}]
            /\ send_steps' = [send_steps EXCEPT ![c] = steps \o <<"send_lock", "Send">>]
            /\ send_posts' = send_posts \cup
                  {[cmd |-> c, source |-> stdin_of[c], open |-> ctx_of[c].open,
                    steps |-> steps \o <<"send_lock", "Send">>]}
            /\ tasks' = [tasks EXCEPT ![c].stdin = "sending", ![c].woken = FALSE]
       ELSE /\ send_steps' = [send_steps EXCEPT ![c] = steps]
            /\ tasks' = [tasks EXCEPT ![c].stdin = "lock_wait", ![c].woken = FALSE]
            /\ UNCHANGED <<inflight, send_posts>>

\* the stdin source has something to send and calls _send (lines 594-599):
\* Event.wait() does not suspend when the event is set
SendBegin(c) ==
    /\ tasks[c].stdin = "idle" /\ counts[c].sends < MaxSends
    /\ stdin_of[c] # "devnull" => ~ctx_of[c].done_event
    /\ IF CancelsReceive(c) /\ ~ctx_of[c].receive_idle
       THEN /\ ctx_of' = [ctx_of EXCEPT ![c].receive_cancel = TRUE]
            /\ tasks' = [tasks EXCEPT ![c].stdin = "idle_wait", ![c].woken = FALSE]
            /\ send_steps' = [send_steps EXCEPT ![c] = <<"set_cancel">>]
            /\ UNCHANGED <<locks, inflight, send_posts>>
       ELSE /\ TakeSendLock(c, IF CancelsReceive(c)
                               THEN <<"set_cancel", "wait_idle", "clear_cancel">>
                               ELSE <<>>)
            /\ UNCHANGED ctx_of
    /\ UNCHANGED <<stdin_of, counts>>
    /\ UNCHANGED notLocks

\* receive_idle was set: lines 597-606
SendIdle(c) ==
    /\ tasks[c].stdin = "idle_wait" /\ tasks[c].woken
    /\ ctx_of' = [ctx_of EXCEPT ![c].receive_cancel = FALSE]
    /\ TakeSendLock(c, send_steps[c] \o <<"wait_idle", "clear_cancel">>)
    /\ UNCHANGED <<stdin_of, counts>>
    /\ UNCHANGED notLocks

\* the send lock was released to this task: lines 601-606
SendLocked(c) ==
    /\ tasks[c].stdin = "lock_wait" /\ Head(locks.send) = c
    /\ inflight' = [inflight EXCEPT !.send = @ \cup {c}]
    /\ send_steps' = [send_steps EXCEPT ![c] = @ \o <<"send_lock", "Send">>]
    /\ send_posts' = send_posts \cup
          {[cmd |-> c, source |-> stdin_of[c], open |-> ctx_of[c].open,
            steps |-> send_steps[c] \o <<"send_lock", "Send">>]}
    /\ tasks' = [tasks EXCEPT ![c].stdin = "sending"]
    /\ UNCHANGED <<stdin_of, ctx_of, locks, counts>>
    /\ UNCHANGED notLocks

\* the Send is answered and the lock released
SendAnswered(c) ==
    /\ tasks[c].stdin = "sending"
    /\ inflight' = [inflight EXCEPT !.send = @ \ {c}]
    /\ locks' = [locks EXCEPT !.send = Tail(@)]
    /\ counts' = [counts EXCEPT ![c].sends = @ + 1]
    /\ tasks' = [tasks EXCEPT ![c].stdin =
                    IF stdin_of[c] = "devnull" THEN "finished" ELSE "idle"]
    /\ UNCHANGED <<stdin_of, ctx_of, send_steps, send_posts>>
    /\ UNCHANGED notLocks

\* a mutant: the Receive is posted with receive_idle left set
PostReceive_idle_left(c) ==
    /\ inflight' = [inflight EXCEPT !.receive = @ \cup {c}]
    /\ UNCHANGED ctx_of

\* lines 440-452: the receive lock is taken, receive_idle cleared and the
\* Receive posted
PostReceive(c) ==
    /\ ctx_of' = [ctx_of EXCEPT ![c].receive_idle = FALSE]
    /\ inflight' = [inflight EXCEPT !.receive = @ \cup {c}]

\* the receive loop calls _get_events (line 510)
ReceiveBegin(c) ==
    /\ tasks[c].receive = "loop" /\ counts[c].receives < MaxLockReceives
    /\ locks' = [locks EXCEPT !.receive = Append(@, c)]
    /\ IF locks.receive = <<>>
       THEN /\ PostReceive(c)
            /\ tasks' = [tasks EXCEPT ![c].receive = "inflight"]
       ELSE /\ tasks' = [tasks EXCEPT ![c].receive = "lock_wait"]
            /\ UNCHANGED <<ctx_of, inflight>>
    /\ UNCHANGED <<stdin_of, counts, send_steps, send_posts>>
    /\ UNCHANGED notLocks

\* the receive lock was released to this task
ReceiveLocked(c) ==
    /\ tasks[c].receive = "lock_wait" /\ Head(locks.receive) = c
    /\ PostReceive(c)
    /\ tasks' = [tasks EXCEPT ![c].receive = "inflight"]
    /\ UNCHANGED <<stdin_of, locks, counts, send_steps, send_posts>>
    /\ UNCHANGED notLocks

\* receive_idle.set() wakes the _send call that waits for it
IdleSet(t) == [t EXCEPT !.woken = @ \/ t.stdin = "idle_wait"]

\* line 544: stdin_task.cancel(); the ShellWriter has no stdin_task
StdinCancelled(c) == stdin_of[c] # "pipe" /\ tasks[c].stdin \in {"idle", "lock_wait", "sending"}

\* the ReceiveResponse is there (lines 457-466, 518-557): the loop goes on,
\* or it saw CommandState/Done, or the End of both streams
ReceiveAnswered(c, ending) ==
    /\ tasks[c].receive = "inflight"
    /\ counts' = [counts EXCEPT ![c].receives = @ + 1]
    /\ LET cancelled == ending = "done" /\ StdinCancelled(c)
       IN  /\ inflight' = [inflight EXCEPT
                  !.receive = @ \ {c},
                  !.send = IF cancelled THEN @ \ {c} ELSE @]
           /\ locks' = [locks EXCEPT
                  !.receive = Tail(@),
                  !.send = IF cancelled THEN Without(@, c) ELSE @]
           /\ tasks' = [tasks EXCEPT ![c] =
                  [IdleSet(@) EXCEPT
                      !.receive = CASE ending = "continue" -> "loop"
                                    [] ending = "done" -> "signalling"
                                    [] ending = "eof" -> "ended",
                      !.stdin = IF cancelled THEN "cancelled" ELSE @]]
    /\ ctx_of' = [ctx_of EXCEPT ![c] =
          CASE ending = "continue" -> [@ EXCEPT !.receive_idle = TRUE]
            [] ending = "done" -> [@ EXCEPT !.receive_idle = TRUE, !.done_event = TRUE]
            [] ending = "eof" -> [@ EXCEPT !.receive_idle = TRUE, !.open = FALSE]]
    /\ UNCHANGED <<stdin_of, send_steps, send_posts>>
    /\ UNCHANGED notLocks

\* receive_cancel is set while the Receive is awaited (lines 457-461, 548):
\* the request is cancelled and awaited, the loop continues
ReceiveCancelled(c) ==
    /\ tasks[c].receive = "inflight" /\ ctx_of[c].receive_cancel
    /\ inflight' = [inflight EXCEPT !.receive = @ \ {c}]
    /\ locks' = [locks EXCEPT !.receive = Tail(@)]
    /\ ctx_of' = [ctx_of EXCEPT ![c].receive_idle = TRUE]
    /\ tasks' = [tasks EXCEPT ![c] = [IdleSet(@) EXCEPT !.receive = "loop"]]
    /\ UNCHANGED <<stdin_of, counts, send_steps, send_posts>>
    /\ UNCHANGED notLocks

\* the Signal after Done is answered or fails: lines 561-574
ReceiveFinally(c) ==
    /\ tasks[c].receive = "signalling"
    /\ tasks' = [tasks EXCEPT ![c].receive = "ended"]
    /\ ctx_of' = [ctx_of EXCEPT ![c].open = FALSE]
    /\ UNCHANGED <<stdin_of, locks, inflight, counts, send_steps, send_posts>>
    /\ UNCHANGED notLocks

\* the receive task is cancelled while it awaits asyncio.wait (line 454):
\* asyncio.wait leaves request_task running, the finally blocks (lines
\* 464-466, 561-574) and the lock's __aexit__ run
ReceiveTaskCancelled(c) ==
    /\ tasks[c].receive = "inflight"
    /\ inflight' = [inflight EXCEPT !.receive = @ \ {c}, !.orphaned = @ + 1]
    /\ locks' = [locks EXCEPT !.receive = Tail(@)]
    /\ ctx_of' = [ctx_of EXCEPT ![c].receive_idle = TRUE, ![c].open = FALSE]
    /\ tasks' = [tasks EXCEPT ![c] = [IdleSet(@) EXCEPT !.receive = "cancelled"]]
    /\ UNCHANGED <<stdin_of, counts, send_steps, send_posts>>
    /\ UNCHANGED notLocks

\* the Receive of a cancelled receive task is answered
OrphanAnswered ==
    /\ inflight.orphaned > 0
    /\ inflight' = [inflight EXCEPT !.orphaned = @ - 1]
    /\ UNCHANGED <<stdin_of, ctx_of, locks, tasks, counts, send_steps, send_posts>>
    /\ UNCHANGED notLocks

InitLocks == InitWith(0, 0) /\ DefaultAuth /\ NoCall

NextLocks ==
    \/ \E c \in Commands, source \in StdinSources : SpawnCommand(c, source)
    \/ \E c \in Commands :
          \/ SendBegin(c) \/ SendIdle(c) \/ SendLocked(c) \/ SendAnswered(c)
          \/ ReceiveBegin(c) \/ ReceiveLocked(c) \/ ReceiveCancelled(c)
          \/ ReceiveFinally(c) \/ ReceiveTaskCancelled(c)
          \/ \E ending \in {"continue", "done", "eof"} : ReceiveAnswered(c, ending)
    \/ OrphanAnswered

SpecLocks == InitLocks /\ [][NextLocks]_vars

(* ===== stderr=STDOUT: one StreamReader for both streams ================ *)
notMerge == <<processVars, enumVars, authVars, callVars, envVars, idVars, syncVars, lockVars, pipeVars,
              spawnVars>>

\* spawn, lines 344-359: stderr == PIPE gets a StreamReader of its own,
\* stderr == STDOUT gets stdout_reader
ReaderOf(n) ==
    IF n = "stderr" /\ spawn_args.stderr = "PIPE" THEN "stderr_reader"
    ELSE "stdout_reader"

\* spawn with stdout=PIPE; the interpreter runs with or without -O
SpawnMerged(stderr, optimized) ==
    /\ mloop.pc = "none"
    /\ spawn_args' = [stderr |-> stderr, optimized |-> optimized]
    /\ mloop' = [mloop EXCEPT !.pc = "receiving"]
    /\ UNCHANGED <<mreaders, msrv>>
    /\ UNCHANGED notMerge

\* the Stream elements a well-behaved server can send next: a stream carries
\* nothing after its End
MergeEvents(sv) ==
    { [stream |-> n, data |-> d, end |-> e] :
        n \in StreamNames \ sv.ended, d \in BOOLEAN, e \in BOOLEAN }
    \ { ev \in [stream : StreamNames, data : BOOLEAN, end : BOOLEAN] :
            (ev.data /\ sv.sent >= MaxMergeData) \/ (~ev.data /\ ~ev.end) }

ServerAfter(sv, ev) ==
    [sent |-> sv.sent + (IF ev.data THEN 1 ELSE 0),
     ended |-> IF ev.end THEN sv.ended \cup {ev.stream} ELSE sv.ended]

\* the responses of at most k Stream elements
RECURSIVE MergeResponses(_, _)
MergeResponses(sv, k) ==
    {<<>>} \cup
    IF k = 0 THEN {}
    ELSE UNION { { <<ev>> \o rest : rest \in MergeResponses(ServerAfter(sv, ev), k - 1) }
                 : ev \in MergeEvents(sv) }

RECURSIVE ServerAfterAll(_, _)
ServerAfterAll(sv, events) ==
    IF events = <<>> THEN sv
    ELSE ServerAfterAll(ServerAfter(sv, Head(events)), Tail(events))

\* lines 518-536 for one StreamEvent: feed_data(content or b""), then
\* feed_eof() if finished. StreamReader.feed_data begins with
\* `assert not self._eof`: AssertionError, or with -O the data is taken
FeedStream(st, ev) ==
    LET r == ReaderOf(ev.stream)
        late == st.readers[r].eof
    IN  IF late /\ ~spawn_args.optimized
        THEN [st EXCEPT !.readers[r].after_eof = TRUE, !.exc = TRUE]
        ELSE [st EXCEPT
                !.readers[r].after_eof = @ \/ late,
                !.readers[r].fed = IF ev.data THEN Append(@, ev.stream) ELSE @,
                !.readers[r].eof = @ \/ ev.end,
                !.finished = IF ev.end THEN @ \cup {ev.stream} ELSE @]

RECURSIVE FeedStreams(_, _)
FeedStreams(st, events) ==
    IF events = <<>> \/ st.exc THEN st
    ELSE FeedStreams(FeedStream(st, Head(events)), Tail(events))

\* a ReceiveResponse is handled (lines 510-553), and the loop's end (lines
\* 554-574): feed_eof on the readers
MergedResponse ==
    /\ mloop.pc = "receiving"
    /\ \E events \in MergeResponses(msrv, MaxMergeEvents), done \in BOOLEAN :
         LET st == FeedStreams([readers |-> mreaders, finished |-> mloop.finished,
                                exc |-> FALSE], events)
             ends == st.exc \/ done \/ st.finished = StreamNames
         IN  /\ msrv' = ServerAfterAll(msrv, events)
             /\ mloop' = [pc |-> IF st.exc THEN "failed"
                                 ELSE IF ends THEN "ended" ELSE "receiving",
                          finished |-> st.finished]
             /\ mreaders' = IF ends
                            THEN [r \in DOMAIN st.readers |->
                                     [st.readers[r] EXCEPT !.eof =
                                         @ \/ r \in {ReaderOf(n) : n \in StreamNames}]]
                            ELSE st.readers
    /\ UNCHANGED spawn_args
    /\ UNCHANGED notMerge

InitMerged == InitWith(0, 0) /\ DefaultAuth /\ NoCall

NextMerged ==
    \/ \E stderr \in {"PIPE", "STDOUT"}, optimized \in BOOLEAN :
          SpawnMerged(stderr, optimized)
    \/ MergedResponse

SpecMerged == InitMerged /\ [][NextMerged]_vars

(* ===== the stdin of one command: pipe writer, fed source, devnull ====== *)
notPipe == <<processVars, enumVars, authVars, callVars, envVars, idVars, syncVars,
             lockVars, mergeVars, spawnVars>>

\* spawn, lines 361-369: PIPE makes a ShellWriter and its send loop, DEVNULL
\* a task that sends End="true", another source a _feed_stdin task
SpawnStdin(source) ==
    /\ p_source = "unspawned"
    /\ p_source' = source
    /\ p_task' = [p_task EXCEPT !.pc = IF source = "devnull" THEN "start" ELSE "get"]
    /\ UNCHANGED <<p_queue, p_unfinished, p_closed, p_done, p_written, p_sends,
                   p_drain, p_calls>>
    /\ UNCHANGED notPipe

\* the bytes of the next write() or read: numbered on from those before
PipeBytes(n) == [i \in 1..n |-> Len(p_written) + i]

\* a mutant: write() enqueues the payload whole
PipeChunks_whole(payload, c) == IF payload = <<>> THEN <<>> ELSE <<DataItem(payload)>>

\* lines 110-115: the payload cut at every chunk_size bytes
PipeChunks(payload, c) == Chunks(payload, c)

\* ShellWriter.write (lines 103-115)
PipeWrite ==
    /\ p_source = "pipe" /\ p_calls.write < MaxPipeWrites
    /\ p_calls' = [p_calls EXCEPT !.write = @ + 1]
    /\ \E n \in 1..MaxWriteLen :
         IF p_closed \/ p_done
         THEN UNCHANGED <<p_queue, p_unfinished, p_written>>
         ELSE LET chunks == PipeChunks(PipeBytes(n), StdinChunkSize)
              IN  /\ p_queue' = p_queue \o chunks
                  /\ p_unfinished' = p_unfinished + Len(chunks)
                  /\ p_written' = p_written \o PipeBytes(n)
    /\ UNCHANGED <<p_source, p_closed, p_task, p_done, p_sends, p_drain>>
    /\ UNCHANGED notPipe

\* ShellWriter.close (lines 124-127), called again and again
PipeClose ==
    /\ p_source = "pipe" /\ p_calls.close < MaxCloses
    /\ p_calls' = [p_calls EXCEPT !.close = @ + 1]
    /\ p_closed' = TRUE
    /\ IF p_closed THEN UNCHANGED <<p_queue, p_unfinished>>
       ELSE /\ p_queue' = Append(p_queue, EndItem)
            /\ p_unfinished' = p_unfinished + 1
    /\ UNCHANGED <<p_source, p_task, p_done, p_written, p_sends, p_drain>>
    /\ UNCHANGED notPipe

\* _send_loop takes an item (lines 137-149): dropped once the command is
\* done, posted as a Send otherwise; task_done in the finally
SendLoopGet ==
    /\ p_source = "pipe" /\ p_task.pc = "get" /\ p_queue # <<>>
    /\ p_queue' = Tail(p_queue)
    /\ IF p_done
       THEN /\ p_task' = [pc |-> IF Head(p_queue).end THEN "ended" ELSE "get",
                          item |-> Head(p_queue)]
            /\ p_unfinished' = p_unfinished - 1
            /\ UNCHANGED p_sends
       ELSE /\ p_task' = [pc |-> "sending", item |-> Head(p_queue)]
            /\ p_sends' = Append(p_sends, Head(p_queue))
            /\ UNCHANGED p_unfinished
    /\ UNCHANGED <<p_source, p_closed, p_done, p_written, p_drain, p_calls>>
    /\ UNCHANGED notPipe

\* _feed_stdin (lines 633-642, 715-754): the source gives a chunk, which is
\* sent, or is at its end, and End="true" is sent unless the command is done
FeedRead ==
    /\ p_source = "feed" /\ p_task.pc = "get"
    /\ IF p_done
       THEN /\ p_task' = [p_task EXCEPT !.pc = "ended"]
            /\ UNCHANGED <<p_sends, p_written, p_calls>>
       ELSE \/ /\ p_calls.write < MaxPipeWrites
               /\ \E n \in 1..StdinChunkSize :
                    /\ p_task' = [pc |-> "sending", item |-> DataItem(PipeBytes(n))]
                    /\ p_sends' = Append(p_sends, DataItem(PipeBytes(n)))
                    /\ p_written' = p_written \o PipeBytes(n)
               /\ p_calls' = [p_calls EXCEPT !.write = @ + 1]
            \/ /\ p_task' = [pc |-> "sending", item |-> EndItem]
               /\ p_sends' = Append(p_sends, EndItem)
               /\ UNCHANGED <<p_written, p_calls>>
    /\ UNCHANGED <<p_source, p_queue, p_unfinished, p_closed, p_done, p_drain>>
    /\ UNCHANGED notPipe

\* the task of line 366 runs: _send(command_id, b"", end=True)
DevnullSend ==
    /\ p_source = "devnull" /\ p_task.pc = "start"
    /\ p_task' = [pc |-> "sending", item |-> EndItem]
    /\ p_sends' = Append(p_sends, EndItem)
    /\ UNCHANGED <<p_source, p_queue, p_unfinished, p_closed, p_done, p_written,
                   p_drain, p_calls>>
    /\ UNCHANGED notPipe

\* queue.task_done() of the finally (line 151), for the pipe writer
TaskDone == IF p_source = "pipe" THEN p_unfinished - 1 ELSE p_unfinished

\* a mutant: the task goes on after the Send of End="true"
AfterSend_goes_on(item) == "get"

\* lines 143-149, 641-643, 753-754: the Send of End="true" is the task's last
\* statement, the Send of a chunk is followed by the next turn of its loop
AfterSend(item) == IF item.end THEN "ended" ELSE "get"

\* the Send is answered
StdinSendReturn ==
    /\ p_task.pc = "sending"
    /\ p_task' = [p_task EXCEPT !.pc = AfterSend(p_task.item)]
    /\ p_unfinished' = TaskDone
    /\ UNCHANGED <<p_source, p_queue, p_closed, p_done, p_written, p_sends,
                   p_drain, p_calls>>
    /\ UNCHANGED notPipe

\* the Send raises: the send loop catches the TransportError of the closing
\* Send (lines 144-148), every other error ends the task
StdinSendFail ==
    /\ p_task.pc = "sending"
    /\ \E exc \in RequestErrors :
         p_task' = [p_task EXCEPT !.pc =
                      IF p_source = "pipe" /\ Suppressed(p_task.item, exc)
                      THEN "ended" ELSE "failed"]
    /\ p_unfinished' = TaskDone
    /\ UNCHANGED <<p_source, p_queue, p_closed, p_done, p_written, p_sends,
                   p_drain, p_calls>>
    /\ UNCHANGED notPipe

\* the receive loop sees CommandState/Done (lines 539-545): done_event is
\* set and the stdin task, which the pipe writer is not, is cancelled
StdinCommandDone ==
    /\ p_source # "unspawned" /\ ~p_done
    /\ p_done' = TRUE
    /\ p_task' = IF p_source # "pipe" /\ p_task.pc \in {"start", "get", "sending"}
                 THEN [p_task EXCEPT !.pc = "cancelled"] ELSE p_task
    /\ UNCHANGED <<p_source, p_queue, p_unfinished, p_closed, p_written, p_sends,
                   p_drain, p_calls>>
    /\ UNCHANGED notPipe

\* ShellWriter.drain (lines 121-122): Queue.join returns when no item is
\* unfinished
DrainCall ==
    /\ p_source = "pipe" /\ p_drain = "idle"
    /\ p_drain' = IF p_unfinished = 0 THEN "returned" ELSE "blocked"
    /\ UNCHANGED <<p_source, p_queue, p_unfinished, p_closed, p_task, p_done,
                   p_written, p_sends, p_calls>>
    /\ UNCHANGED notPipe

DrainReturn ==
    /\ p_drain = "blocked" /\ p_unfinished = 0
    /\ p_drain' = "returned"
    /\ UNCHANGED <<p_source, p_queue, p_unfinished, p_closed, p_task, p_done,
                   p_written, p_sends, p_calls>>
    /\ UNCHANGED notPipe

InitPipe == InitWith(0, 0) /\ DefaultAuth /\ NoCall

NextPipe ==
    \/ \E source \in {"pipe", "feed", "devnull"} : SpawnStdin(source)
    \/ PipeWrite \/ PipeClose \/ SendLoopGet \/ FeedRead \/ DevnullSend
    \/ StdinSendReturn \/ StdinSendFail \/ StdinCommandDone
    \/ DrainCall \/ DrainReturn

SpecPipe == InitPipe /\ [][NextPipe]_vars

\* the event loop runs every task that is ready, every Send completes
FairSpecPipe ==
    /\ SpecPipe
    /\ WF_vars(SendLoopGet) /\ WF_vars(StdinSendReturn \/ StdinSendFail)
    /\ WF_vars(DrainReturn)

(* ============ Shell.spawn(): arguments, contexts, commands ============= *)
notSpawn == <<processVars, enumVars, authVars, callVars, envVars, idVars, syncVars,
              lockVars, mergeVars, pipeVars>>

\* spawn() raises exc
SpawnRaises(exc) == sp_pc' = "raised" /\ sp_exc' = exc

\* Shell.spawn up to the await of the Command request (lines 326-334)
SpawnBegin(stdout, stderr) ==
    /\ sp_pc \in {"idle", "returned", "raised"} /\ sp_calls < MaxSpawns
    /\ sp_args' = [stdout |-> stdout, stderr |-> stderr]
    /\ sp_calls' = sp_calls + 1
    /\ IF sp_destroyed THEN SpawnRaises("RuntimeError")
       ELSE sp_pc' = "command" /\ sp_exc' = "none"
    /\ UNCHANGED <<sp_destroyed, sp_destroy_pc, sp_contexts, sp_server, sp_loops>>
    /\ UNCHANGED notSpawn

\* _open_command_context (lines 250-254)
OpenCommandContext(command_id) == sp_contexts' = sp_contexts \cup {command_id}

\* the sinks of lines 342-359: _OutputSink opens a path for appending
\* (line 43), which the file system may refuse
SinksOpen(opens) == "path" \notin {sp_args.stdout, sp_args.stderr} \/ opens

\* the server answers the Command request: _command lines 310-313 and spawn
\* lines 335-398. The server has started the command whose id it returns.
\* The stdin set-up (lines 361-369) raises nothing and is left out.
CommandAnswered ==
    /\ sp_pc = "command"
    /\ \E has_id, opens \in BOOLEAN :
          LET command_id == sp_calls IN
          IF ~has_id
          THEN /\ SpawnRaises("ProtocolError")
               /\ UNCHANGED <<sp_contexts, sp_server, sp_loops>>
          ELSE /\ sp_server' = sp_server \cup {command_id}
               /\ OpenCommandContext(command_id)
               /\ IF sp_args.stdout = "STDOUT"
                  THEN SpawnRaises("ValueError") /\ sp_loops' = sp_loops
                  ELSE IF ~SinksOpen(opens)
                  THEN SpawnRaises("OSError") /\ sp_loops' = sp_loops
                  ELSE /\ sp_loops' = sp_loops \cup {command_id}
                       /\ sp_pc' = "returned" /\ sp_exc' = "none"
    /\ UNCHANGED <<sp_destroyed, sp_destroy_pc, sp_args, sp_calls>>
    /\ UNCHANGED notSpawn

\* the Command request raises (line 299): the server started nothing
CommandFault ==
    /\ sp_pc = "command"
    /\ \E exc \in RequestErrors : SpawnRaises(exc.type)
    /\ UNCHANGED <<sp_destroyed, sp_destroy_pc, sp_contexts, sp_args, sp_server,
                   sp_loops, sp_calls>>
    /\ UNCHANGED notSpawn

\* the command c ends and its receive loop with it: the finally block closes
\* the context (line 574)
ReceiveLoopEnds(c) ==
    /\ c \in sp_loops
    /\ sp_loops' = sp_loops \ {c}
    /\ sp_contexts' = sp_contexts \ {c}
    /\ sp_server' = sp_server \ {c}
    /\ UNCHANGED <<sp_destroyed, sp_destroy_pc, sp_pc, sp_args, sp_exc, sp_calls>>
    /\ UNCHANGED notSpawn

\* Shell.destroy up to the await of the Delete request (lines 271-277)
DestroyBegin ==
    /\ sp_destroy_pc = "idle"
    /\ sp_destroy_pc' = IF sp_destroyed THEN "raised" ELSE "delete"
    /\ UNCHANGED <<sp_destroyed, sp_contexts, sp_pc, sp_args, sp_exc, sp_server,
                   sp_loops, sp_calls>>
    /\ UNCHANGED notSpawn

\* the Delete request returns (line 278) or raises
DestroyAnswered ==
    /\ sp_destroy_pc = "delete"
    /\ \E ok \in BOOLEAN :
          /\ sp_destroy_pc' = IF ok THEN "returned" ELSE "raised"
          /\ sp_destroyed' = (sp_destroyed \/ ok)
    /\ UNCHANGED <<sp_contexts, sp_pc, sp_args, sp_exc, sp_server, sp_loops, sp_calls>>
    /\ UNCHANGED notSpawn

InitSpawn == InitWith(0, 0) /\ DefaultAuth /\ NoCall

NextSpawn ==
    \/ \E stdout, stderr \in SpawnTargets : SpawnBegin(stdout, stderr)
    \/ CommandAnswered \/ CommandFault
    \/ \E c \in 1..MaxSpawns : ReceiveLoopEnds(c)
    \/ DestroyBegin \/ DestroyAnswered

SpecSpawn == InitSpawn /\ [][NextSpawn]_vars

(* ======================= properties of the shell ======================= *)
IsPrefix(a, b) == Len(a) <= Len(b) /\ SubSeq(b, 1, Len(a)) = a

TimeoutFault == WSManFaultError(OperationTimeoutCode)

\* C1: a wait() that returns, returns the exit code the command terminates
\* with on the server (0 when its CommandState/Done carries no ExitCode),
\* whatever the order of Done and the End markers over the responses.
C1_WaitReturnsExitCode ==
    wait_pc = "returned" => wait_out.value = ExitCodeOrZero(srv_exit)

\* C2: returncode_future is set exactly once: once the loop has terminated
\* normally it holds the integer exit code, once the loop has failed it holds
\* that exception, and it is never set a second time.
C2_FutureSetExactlyOnce ==
    /\ fut_sets <= 1
    /\ rpc \in {"signalling", "ended"} =>
            fut.state = "result" /\ fut.value = loc.returncode
    /\ rpc = "failed" => fut.state = "exception" /\ fut.exc = loop_exc

\* a Receive of the loop has just failed with the operation-timeout fault
TimeoutStep == rpc = "inflight" /\ hist'.timeouts = hist.timeouts + 1

\* C3: a Receive that fails with WSMan fault 2150858793 makes the loop post
\* another Receive for the command, leaves returncode_future, the readers and
\* the command context as they are, and the fault never reaches the future,
\* the loop's exception or a caller of wait().
C3_TimeoutAbsorbed ==
    /\ [](/\ fut.exc # TimeoutFault
          /\ loop_exc # TimeoutFault
          /\ wait_out.exc # TimeoutFault)
    /\ [][TimeoutStep =>
            /\ rpc' \in {"inflight", "loop"}
            /\ posted["Receive"] < MaxReceives =>
                    /\ rpc' = "inflight"
                    /\ posted'["Receive"] = posted["Receive"] + 1
            /\ UNCHANGED <<fut, fut_sets, loop_exc, readers, command_contexts, loc>>
         ]_vars

\* C3 witness: two timeouts in a row were absorbed and a further Receive is
\* in flight, the future still pending
C3_Witness ==
    /\ hist.timeouts = 2 /\ rpc = "inflight" /\ posted["Receive"] = 3
    /\ fut.state = "pending" /\ wait_pc = "blocked"

\* C4: once a Receive has failed with a WSMan fault other than the operation
\* timeout, the loop has stopped, returncode_future holds that WSManFaultError
\* and a wait() that completes raises it.
C4_FaultFailsProcess ==
    (loop_exc.type = "WSManFaultError") =>
        /\ rpc = "failed"
        /\ fut.state = "exception" /\ fut.exc = loop_exc
        /\ wait_pc \in {"returned", "raised"} => wait_out.exc = loop_exc

\* C9: after the caller blocked in wait() was cancelled, the receive task of
\* the command is cancelled (or had ended already).
C9_WaitCancelCancelsReceive ==
    wait_pc = "cancelled" => rpc \in {"cancelled", "ended", "failed"}

C5_ReceiveAfterSend ==
    /\ (wpc = "sending" /\ hist.cancel_target # 0) =>
            send_lock /\ hist.recv_ended >= hist.cancel_target
    /\ (wpc \in {"await_idle", "sending"} /\ hist.cancel_target # 0) =>
            posted["Receive"] = hist.cancel_target

\* C5 amended: when the Send is posted it holds the send lock and the Receive
\* that was in flight at the write is no longer in flight (cancelled, or
\* completed first); the next Receive is not held back by the Send.
C5_SendAfterReceiveEnded ==
    wpc = "sending" =>
        /\ send_lock
        /\ hist.cancel_target # 0 => hist.recv_ended >= hist.cancel_target

\* C5 witness: the Send is in flight after it cancelled Receive 1, and
\* Receive 2 is in flight with it
C5_Witness ==
    /\ wpc = "sending" /\ hist.cancel_target = 1 /\ hist.recv_cancelled = 1
    /\ rpc = "inflight" /\ posted["Receive"] = 2

\* C8: once destroy() has completed, no operation on the shell posts a
\* request any more.
C8_NoRequestAfterDestroy == [][destroyed => posted' = posted]_vars

\* a call of ShellWriter.write()
WriteStep == n_writes' = n_writes + 1

\* the send loop takes an item from the queue
DequeueStep == queue # <<>> /\ queue' = Tail(queue)

\* C11 as claimed: while done is set, write() raises no error and enqueues
\* nothing, a dequeued item is dropped without a Send being posted, and a
\* TransportError of the closing Send is suppressed.
C11_DoneDiscards ==
    /\ [][(WriteStep /\ done_event) =>
             (queue' = queue /\ ~hist'.write_raised)]_vars
    /\ [][(DequeueStep /\ done_event) =>
             (posted' = posted /\ wpc' \in {"get", "ended"})]_vars
    /\ []((hist.send_transport_error /\ witem.end) => wpc = "ended")

\* C11 amended: as claimed, except that write() on a writer that was closed
\* raises RuntimeError whether or not done is set.
C11_DoneDiscardsOpenWriter ==
    /\ [][(WriteStep /\ done_event) =>
             (queue' = queue /\ (~writer_closed => ~hist'.write_raised))]_vars
    /\ [][(DequeueStep /\ done_event) =>
             (posted' = posted /\ wpc' \in {"get", "ended"})]_vars
    /\ []((hist.send_transport_error /\ witem.end) => wpc = "ended")

\* C11 witness: after Done, a write was discarded without an error and the
\* closing item was dropped by the send loop without a Send
C11_Witness ==
    /\ done_event /\ n_writes = 1 /\ hist.written = 0 /\ ~hist.write_raised
    /\ writer_closed /\ wpc = "ended" /\ posted["Send"] = 0

\* C12: once the receive loop of a command has ended without having seen
\* CommandState/Done (by an error, by both stream EOFs or by cancellation of
\* its task), a Signal Terminate for the command is eventually posted.
C12_AbandonedIsTerminated ==
    [](((rpc \in {"ended", "failed", "cancelled"}) /\ ~loc.done_seen)
            => <>(posted["Signal"] > 0))

(* ==================== properties of the enumeration ==================== *)
\* C6: an enumeration that received a response with EndOfSequence sends no
\* Pull request after that response; one that ran to its end, or that has
\* visited the EndOfSequence element, has sent no Release request
C6_NoPullNoReleaseAfterEnd ==
    /\ [][ehist.eos_received => e_posted'["Pull"] = e_posted["Pull"]]_vars
    /\ []((finished \/ (ehist.eos_received /\ ~ehist.abandoned))
              => e_posted["Release"] = 0)

\* two Pull requests, items yielded, EndOfSequence visited, ended normally
C6_Witness ==
    /\ epc = "closed" /\ finished /\ e_exc = NoExc /\ ~ehist.abandoned
    /\ ehist.yielded >= 2 /\ e_posted["Pull"] = MaxPulls

\* C7: an enumeration closed by its consumer after at least one item, with
\* an EnumerationContext observed and no EndOfSequence received, has sent
\* exactly one Release request, carrying the last observed context
C7_AbandonReleasesLastContext ==
    (/\ epc = "closed" /\ ehist.abandoned /\ ehist.yielded >= 1
     /\ ~ehist.eos_received /\ ehist.observed # NoContext)
        => ehist.released = <<ehist.observed>>

\* the step in which the for loop over a response ends and line 565 looks at
\* next_context
ContextChecked ==
    /\ EnumerateResponse \/ PullResponse \/ ConsumerNext
    /\ epc' # "yield"

C17_ReleaseFailureSwallowed ==
    (epc = "closed" /\ ehist.abandoned /\ e_posted["Release"] > 0)
        => (e_exc \notin RequestErrors /\ e_posted["Release"] = 1)

(* ==================== properties of the auth flows ===================== *)
\* the flow of request r holds a yielded HTTP request
InFlow(r) == apc[r] \in {"preflight", "final", "round"}

\* C13: at most one request's auth flow is in progress at any time and that
\* flow holds the lock, over all its rounds up to its last response; the
\* context is stepped only by a flow next to which no other is in progress.
C13_AuthFlowSerial ==
    /\ [](\A r, q \in Requests : (InFlow(r) /\ InFlow(q)) => r = q)
    /\ [](\A r \in Requests : InFlow(r) => auth_lock = r)
    /\ [][auth_context' # auth_context =>
            \E r \in Requests :
                /\ auth_lock \in {r, NoRequest}
                /\ \A q \in Requests \ {r} :
                      ~InFlow(q) /\ apc'[q] = apc[q] /\ asent'[q] = asent[q]]_vars

\* C13 witness: request 1 is in its second handshake round and holds the
\* lock while request 2 waits for it
C13_Witness ==
    /\ apc[1] = "preflight" /\ asent[1] = <<"preflight", "preflight">>
    /\ auth_lock = 1 /\ apc[2] = "waiting"

\* C14: with a complete context an encrypted auth object never steps the
\* context again and yields nothing but encrypted requests, and a flow that
\* began with the context complete sends exactly one HTTP request, the
\* encrypted one.
C14_NoHandshakeOnceComplete ==
    /\ [](\A r \in Requests :
            (auth_encrypted /\ astart[r]) => asent[r] = <<"encrypted">>)
    /\ [][(auth_encrypted /\ auth_context.complete) =>
            /\ auth_context' = auth_context
            /\ \A r \in Requests :
                  asent'[r] \in {asent[r], Append(asent[r], "encrypted")}]_vars

\* C14 witness: request 1 made the handshake, request 2 came after it and
\* was answered after one encrypted request
C14_Witness ==
    /\ auth_encrypted /\ apc[1] = "done" /\ Len(asent[1]) >= 2
    /\ astart[2] /\ apc[2] = "done" /\ asent[2] = <<"encrypted">>

(* =================== properties of the SOAP client ===================== *)
\* C15: a response whose Body holds a Fault with a WSManFault Code raises
\* WSManFaultError, one with a Fault without such a code raises
\* SOAPFaultError, whatever the HTTP status; without a Fault a non-success
\* status raises TransportError and a success status returns the response.
C15_FaultBeforeStatus ==
    call_result # NoResult =>
        LET f == call_arg.fault
            coded == f.detail = "WSManFault" /\ f.wsman_code # None
        IN  /\ (f # NoFault /\ coded) =>
                    call_result = Raised("WSManFaultError", f.code, f.reason, f.wsman_code)
            /\ (f # NoFault /\ ~coded) =>
                    call_result = Raised("SOAPFaultError", f.code, f.reason, None)
            /\ (f = NoFault /\ ~IsSuccess(call_arg.status)) =>
                    call_result.type = "TransportError"
            /\ (f = NoFault /\ IsSuccess(call_arg.status)) =>
                    call_result = Returned

\* C15 witness: a fault with a WSMan code in a response of status 500 raised
\* WSManFaultError
C15_Witness ==
    /\ call_result.type = "WSManFaultError"
    /\ call_result.wsman_code = OperationTimeoutCode
    /\ call_arg.status = 500

(* ================= properties of the message encryption ================ *)
\* C18: decrypting the body encrypt_message built for a message returns
\* exactly that message, whatever bytes the wrapped header and the
\* ciphertext hold.
C18_RoundTrip ==
    call_result # NoResult => call_result = Bytes(call_arg.message)

\* a round trip of a ciphertext free of the boundary and Content-Type lines
C18_PlainRoundTrip ==
    /\ call_result = Bytes(call_arg.message)
    /\ call_arg.message # <<>> /\ call_arg.data = <<Sym("a"), Sym("a")>>

(* ==================== properties of the envelope ======================= *)
\* C19: after any sequence of assignments to the typed properties, the
\* Header holds at most one element per field, and the getter of every
\* property returns the value last assigned to it, None after None.
C19_LastAssignedWins ==
    /\ \A i, j \in DOMAIN header : header[i].tag = header[j].tag => i = j
    /\ \A property \in Properties : Get(property, header) = assigned[property]

\* the Header elements of a tag of the envelope built
Elements(tag) == {header[i] : i \in {j \in DOMAIN header : header[j].tag = tag}}

C21_FreshMessageIds ==
    \A i, j \in DOMAIN built :
        (i # j /\ ~built[i].explicit /\ ~built[j].explicit)
            => built[i].id # built[j].id

(* ======================= properties of dictify ========================= *)
\* the text is the decimal string of an integer
IsDecimalString(t) == IntOf(t) # Nothing /\ StrOf(IntOf(t)[1]) = t

\* C22: a child with xsi:nil="true" maps to None; otherwise a text "false"
\* or "true" maps to the boolean, a text that is str(n) of an integer n maps
\* to n, and any other text maps to itself.
C22_DictifyCoercion ==
    (call_result # NoResult /\ call_arg.text # Nothing) =>
        LET t == call_arg.text[1]
        IN  call_result.value =
                IF call_arg.nil = Some("true") THEN PyNone
                ELSE IF t = <<"false">> THEN PyBool(FALSE)
                ELSE IF t = <<"true">> THEN PyBool(TRUE)
                ELSE IF IsDecimalString(t) THEN PyInt(IntOf(t)[1])
                ELSE PyStr(t)

C24_OneSendOneReceive ==
    /\ Cardinality(inflight.send) <= 1
    /\ Cardinality(inflight.receive) + inflight.orphaned <= 1

\* what the locks do give: one Send, and one Receive that a task awaits
C24_OneAwaited ==
    /\ Cardinality(inflight.send) <= 1
    /\ Cardinality(inflight.receive) <= 1

\* C25: every stdin Send for a command with a live context, from whichever
\* stdin source, sets receive-cancel, waits for receive-idle and clears
\* receive-cancel, in this order, before it acquires the send lock.
C25_HandshakeBeforeSend ==
    \A post \in send_posts :
        post.open => post.steps = <<"set_cancel", "wait_idle", "clear_cancel",
                                    "send_lock", "Send">>

\* C25 as the code has it: the Sends of the pipe writer do so; the Sends of
\* the other sources (reader, file, descriptor, devnull) acquire the send
\* lock at once.
C25_HandshakeOfPipeWriter ==
    \A post \in send_posts :
        /\ (post.open /\ post.source = "pipe")
              => post.steps = <<"set_cancel", "wait_idle", "clear_cancel",
                                "send_lock", "Send">>
        /\ post.source # "pipe" => post.steps = <<"send_lock", "Send">>

\* C25 witness: a Send of the pipe writer after the three steps and a Send
\* of a file source, both posted for commands with a live context
C25_Witness ==
    /\ \E post \in send_posts :
          /\ post.open /\ post.source = "pipe"
          /\ post.steps = <<"set_cancel", "wait_idle", "clear_cancel", "send_lock", "Send">>
    /\ \E post \in send_posts : post.open /\ post.source = "file"

(* ============== properties of the end of the receive loop ============== *)
\* a step of the receive loop out of an awaited Receive that is neither an
\* error nor the cancellation of the task
ReceiveLoopStep ==
    /\ rpc = "inflight"
    /\ rpc' # "inflight" \/ posted'["Receive"] # posted["Receive"]
    /\ rpc' \notin {"failed", "cancelled"}

C27_CleanupOnTermination ==
    rpc \in {"ended", "failed", "cancelled"} =>
        /\ "cmd" \notin command_contexts
        /\ \A n \in StreamNames : readers[n].eof

\* the same without the cancellation of the receive task
C27_CleanupUnlessCancelled ==
    rpc \in {"ended", "failed"} =>
        /\ "cmd" \notin command_contexts
        /\ \A n \in StreamNames : readers[n].eof

(* ==================== properties of stderr=STDOUT ====================== *)
\* C28: the receive loop never feeds data to a pipe reader after it has fed
\* it EOF, in particular with stderr=STDOUT when one stream delivers End
\* before the other stream's data or End.
C28_NoFeedAfterEof ==
    \A r \in DOMAIN mreaders : ~mreaders[r].after_eof

\* with a reader for each stream no feed_data follows a feed_eof
C28_NoFeedAfterEofOwnReaders ==
    spawn_args.stderr = "PIPE" => \A r \in DOMAIN mreaders : ~mreaders[r].after_eof

(* ================== properties of wait() after Done ==================== *)
\* C29: a wait() cancelled while the command runs does not lose the exit
\* code: once the loop has seen CommandState/Done, a wait() that completes
\* returns the exit code.
C29_ExitCodeSurvivesCancel ==
    (loc.done_seen /\ rpc \in {"signalling", "ended"}
        /\ wait_pc \in {"returned", "raised"})
    => (wait_pc = "returned" /\ wait_out.value = loc.returncode)

\* the same as long as no wait() was cancelled before the loop ended
C29_ExitCodeUnlessCancelled ==
    (loc.done_seen /\ rpc \in {"signalling", "ended"}
        /\ wait_pc \in {"returned", "raised"} /\ fut.state # "cancelled")
    => (wait_pc = "returned" /\ wait_out.value = loc.returncode)

(* ================= properties of the Signal after Done ================= *)
\* the Signal of the receive loop has just failed
SignalFailedStep == rpc = "signalling" /\ hist'.signal_exc # NoExc

\* C30: a loop that terminates after CommandState/Done sends exactly one
\* Signal Terminate, and a failure of that Signal is swallowed: the loop ends
\* as after an answer, returncode_future is left as it is, and where it holds
\* the exit code a wait() that completes returns it.
C30_SignalFailureSwallowed ==
    /\ []((loc.done_seen /\ rpc \in {"signalling", "ended"}) => posted["Signal"] = 1)
    /\ [][SignalFailedStep =>
            /\ rpc' = "ended"
            /\ UNCHANGED <<fut, fut_sets, loop_exc, posted>>]_vars
    /\ []((rpc = "ended" /\ loc.done_seen /\ hist.signal_exc # NoExc
                /\ fut.state # "cancelled")
            => /\ fut.state = "result" /\ fut.value = loc.returncode
               /\ wait_pc \in {"returned", "raised"} =>
                    (wait_pc = "returned" /\ wait_out.value = loc.returncode))

\* C30 witness: the Signal failed with a transport error and a wait() called
\* afterwards returned the exit code 3
C30_Witness ==
    /\ rpc = "ended" /\ loc.done_seen /\ hist.signal_exc = TransportError
    /\ posted["Signal"] = 1
    /\ wait_pc = "returned" /\ wait_out.value = 3 /\ n_waits = 1

(* ================= properties of the stdin of a command ================ *)
\* the payloads of the data Sends posted so far, joined in the order posted
RECURSIVE Joined(_)
Joined(sends) ==
    IF sends = <<>> THEN <<>> ELSE Head(sends).data \o Joined(Tail(sends))

\* C31: for a pipe writer with chunk size c > 0 on a running command, every
\* data Send carries at most c bytes, a Send is posted only when the one
\* before it has completed, the payloads joined in the order posted are a
\* prefix of the bytes written, and all of them once the send loop has
\* emptied the queue.
C31_ChunkedInOrder ==
    /\ [](p_source = "pipe" =>
            /\ \A i \in DOMAIN p_sends : Len(p_sends[i].data) <= StdinChunkSize
            /\ IsPrefix(Joined(p_sends), p_written)
            /\ (~p_done /\ p_queue = <<>> /\ p_task.pc \in {"get", "ended"})
                    => Joined(p_sends) = p_written)
    /\ [][(p_source = "pipe" /\ p_sends' # p_sends) =>
            p_task.pc = "get" /\ p_sends' = Append(p_sends, Head(p_queue))]_vars

\* C31 witness: two writes of two bytes each went out as four Sends in order
C31_Witness ==
    /\ p_source = "pipe" /\ ~p_done /\ p_queue = <<>> /\ p_task.pc = "get"
    /\ p_calls.write = 2 /\ Len(p_written) = 2 * MaxWriteLen
    /\ Len(p_sends) > p_calls.write /\ Joined(p_sends) = p_written

\* C32: a drain() called after any sequence of write() calls eventually
\* returns, provided every Send eventually completes, with an error or
\* without.
C32_DrainReturns == (p_drain = "blocked") ~> (p_drain = "returned")

\* the same as long as no Send has ended the send loop with an error
C32_DrainReturnsUnlessFailed ==
    (p_drain = "blocked") ~> (p_drain = "returned" \/ p_task.pc = "failed")

\* C33: for every command at most one Send with End="true" is posted and no
\* Send with stdin data is posted after it, whatever the stdin source and
\* however often close() is called.
C33_EndIsLast ==
    \A i \in DOMAIN p_sends : p_sends[i].end => i = Len(p_sends)

\* C33 witness: close() was called twice on a pipe writer that had written,
\* and the one Send of End="true" followed the data
C33_Witness ==
    /\ p_source = "pipe" /\ p_calls.close = 2 /\ p_task.pc = "ended"
    /\ Len(p_sends) >= 2 /\ p_sends[Len(p_sends)].end

(* ====================== properties of receive_idle ===================== *)
\* C34: for every command context, receive_idle is clear exactly while a
\* Receive of that command is in flight under the shell's receive lock, and
\* set at all other times: from the creation of the context on, and after
\* every Receive that completed, faulted or was cancelled.
C34_IdleExactlyWhenNoReceive ==
    \A c \in Commands :
        stdin_of[c] # "unspawned" =>
            /\ ~ctx_of[c].receive_idle <=> c \in inflight.receive
            /\ c \in inflight.receive => Head(locks.receive) = c

\* C34 witness: one command awaits its Receive with receive_idle clear, the
\* other waits for the lock with receive_idle set after a cancelled Receive
C34_Witness ==
    \E c, d \in Commands :
        /\ c \in inflight.receive /\ ~ctx_of[c].receive_idle
        /\ tasks[d].receive = "lock_wait" /\ ctx_of[d].receive_idle
        /\ counts[d].sends > 0 /\ stdin_of[d] = "pipe"

(* =================== properties of the Pull requests =================== *)
\* C35: every Pull carries exactly one EnumerationContext, the one returned
\* by the immediately preceding response, and no context is sent again once
\* a newer one has been received.
C35_PullCarriesPrecedingContext ==
    epc = "pull" =>
        /\ ehist.fresh
        /\ ehist.pulled[Len(ehist.pulled)] = ehist.observed

\* C35 as the code has it: every Pull carries the context received last,
\* which is the one of the preceding response if that carried one and the
\* one sent before if it did not.
C35_PullCarriesLatestContext ==
    epc = "pull" =>
        /\ ehist.observed # NoContext
        /\ ehist.pulled[Len(ehist.pulled)] = ehist.observed
        /\ (~ehist.fresh /\ Len(ehist.pulled) > 1) =>
              ehist.pulled[Len(ehist.pulled)] = ehist.pulled[Len(ehist.pulled) - 1]

\* C35 witness: a second Pull carries the context renewed by the first
\* Pull's response
C35_Witness ==
    /\ epc = "pull" /\ Len(ehist.pulled) = 2 /\ ehist.fresh
    /\ ehist.pulled[1] # ehist.pulled[2] /\ ehist.pulled[2] = ehist.observed

\* C36: an enumeration whose response carries EndOfSequence completes
\* normally once the consumer has taken that response's items, whether or
\* not the response carries an EnumerationContext too.
C36_EndOfSequenceCompletes ==
    (epc = "closed" /\ ehist.eos_received /\ ~ehist.abandoned) => e_exc = NoExc

\* the same for the responses that are not the first without a context
C36_EndOfSequenceCompletesWithContext ==
    (epc = "closed" /\ ehist.eos_received /\ ~ehist.abandoned
        /\ ehist.observed # NoContext) => e_exc = NoExc

(* ================= properties of the SPNEGO handshake ================== *)
\* the scheme, in lower case, is one the protocol accepts
Acceptable(protocol, scheme) ==
    \/ scheme = "negotiate"
    \/ scheme = "kerberos" /\ protocol # "ntlm"
    \/ scheme = "ntlm" /\ protocol # "kerberos"

\* the response carries a token under an acceptable WWW-Authenticate scheme
CarriesToken(protocol, headers) ==
    \E i \in DOMAIN headers :
        Acceptable(protocol, Lower(headers[i].scheme)) /\ headers[i].token # ""

\* C37: when a SPNEGOAuth flow takes a response, it sends a further request
\* with an Authorization token if and only if the context was not complete,
\* the response carried a token under a scheme acceptable for the protocol
\* and the step with that token gave an output token; otherwise it sends
\* nothing more and is over, normally so when there was no token to take or
\* the context was complete.
C37_FurtherRequestIff ==
    [][\A r \in Requests :
          (~auth_encrypted /\ apc[r] = "round" /\ alast'[r] # alast[r]) =>
              LET t == alast'[r]
                  carries == CarriesToken(auth_protocol, t.headers)
                  further == /\ apc'[r] = "round"
                             /\ asent'[r] = Append(asent[r], "request")
                             /\ awire'[r][Len(awire'[r])].request.authorization
                                    = auth_context'.steps
                             /\ auth_context'.steps = auth_context.steps + 1
              IN  /\ further <=> (~t.complete /\ carries /\ t.out_token)
                  /\ ~further =>
                        /\ asent'[r] = asent[r] /\ apc'[r] \in {"done", "failed"}
                        /\ (t.complete \/ ~carries) =>
                              apc'[r] = "done" /\ auth_context' = auth_context]_vars

\* C37 witness: with protocol "kerberos" a flow took a response with a
\* Kerberos token, stepped the context and sent a second request with the
\* output token
C37_Witness ==
    /\ ~auth_encrypted /\ auth_protocol = "kerberos"
    /\ apc[1] = "round" /\ asent[1] = <<"request", "request">>
    /\ alast[1] # NoResponse /\ alast[1].n = 1 /\ ~alast[1].complete
    /\ alast[1].headers = <<[scheme |-> "Kerberos", token |-> "dG9rZW4="]>>
    /\ alast[1].out_token /\ awire[1][2].request.authorization = 2

(* ================ properties of the encrypted auth flow ================ *)
\* C38: a SPNEGOEncryptedAuth flow yields the wrapped request only with a
\* complete context: when the handshake stopped early, without a token from
\* the server or from the step, no wrapped request is sent.
C38_WrappedOnlyWhenComplete ==
    \A r \in Requests : \A i \in DOMAIN asent[r] :
        (auth_encrypted /\ asent[r][i] = "encrypted") => awire[r][i].complete

\* request i of flow r is a preflight: no body, Content-Length 0 and an
\* Authorization token
IsPreflight(r, i) ==
    LET req == awire[r][i].request
    IN  req.content = "" /\ req.content_length = "0" /\ req.authorization # 0

\* C39: every request a SPNEGOEncryptedAuth flow yields while the context is
\* not complete is a preflight with an empty body, Content-Length 0 and the
\* token of the step just made, and no yielded request has the plaintext
\* SOAP body as its content.
C39_PreflightUntilComplete ==
    \A r \in Requests : \A i \in DOMAIN awire[r] :
        auth_encrypted =>
            /\ awire[r][i].request.content # "plaintext"
            /\ ~awire[r][i].complete => IsPreflight(r, i)

\* the same but for the wrapped requests of a handshake that stopped early;
\* no token is sent twice
C39_PreflightUntilCompleteOrStopped ==
    /\ \A r \in Requests : \A i \in DOMAIN awire[r] :
          auth_encrypted =>
              /\ awire[r][i].request.content \in {"", "wrapped"}
              /\ asent[r][i] = "preflight" <=> IsPreflight(r, i)
              /\ (~awire[r][i].complete /\ asent[r][i] # "encrypted")
                    => IsPreflight(r, i)
    /\ \A r, q \in Requests : \A i \in DOMAIN awire[r] : \A j \in DOMAIN awire[q] :
          (auth_encrypted /\ IsPreflight(r, i) /\ IsPreflight(q, j)
              /\ awire[r][i].request.authorization
                    = awire[q][j].request.authorization)
          => (r = q /\ i = j)

(* ===================== properties of Shell.spawn() ===================== *)
\* C40: a call of spawn() that raises leaves the command-context map as it
\* was, and the server has started no command for it that has no receive
\* loop.
C40_FailedSpawnLeavesNothing ==
    [][(sp_pc # "raised" /\ sp_pc' = "raised") =>
          /\ sp_contexts' = sp_contexts
          /\ (sp_server' \ sp_server) \subseteq sp_loops']_vars

\* the same for the calls that raise before the CommandResponse has come
\* with a CommandId
C40_FailedCommandLeavesNothing ==
    [][(sp_pc # "raised" /\ sp_pc' = "raised"
            /\ sp_exc' \notin {"ValueError", "OSError"}) =>
          /\ sp_contexts' = sp_contexts
          /\ (sp_server' \ sp_server) \subseteq sp_loops']_vars

====
